---- MODULE Spec2Model ----
(***************************************************************************)
(* A model of the save codec of shf-save-editor (src/src/save.rs,          *)
(* src/src/uobject.rs) and of the editor operations that drive it          *)
(* (src/src/app.rs).                                                       *)
(*                                                                         *)
(* A stream is a sequence of bytes (0..255); a position is the number of   *)
(* bytes already consumed, so the next byte of stream b at position p is   *)
(* b[p + 1].  A Rust String is the sequence of its UTF-8 bytes.  Every     *)
(* reader returns a record [ok, pos, val, err]: err is "eof" for           *)
(* binrw's UnexpectedEof, "bad" for every other Err value, and "panic"     *)
(* when the code unwinds instead of returning.                             *)
(***************************************************************************)
EXTENDS Integers, Sequences, FiniteSets, TLC

VARIABLES overflow_checks,
          fsStage, fsStr, fsBytes, fsRes,
          guidStage, guid, guidText, guidRes,
          stage, stream, nprops, wrapped, file, save, out, edits,
          defStage, defCall, defType, defFlags, defValue, defBytes, defRes,
          lookCall, lookTarget, lookKey, lookRes,
          tyStage, tyBytes, tyRes, tyElem

fsVars == <<fsStage, fsStr, fsBytes, fsRes>>

guidVars == <<guidStage, guid, guidText, guidRes>>

codecVars == <<stage, stream, nprops, wrapped, file, save, out, edits>>

defVars == <<defStage, defCall, defType, defFlags, defValue, defBytes, defRes>>

lookVars == <<lookCall, lookTarget, lookKey, lookRes>>

tyVars == <<tyStage, tyBytes, tyRes, tyElem>>

vars == <<overflow_checks, fsVars, guidVars, codecVars, defVars, lookVars, tyVars>>

MaxStrLen == 3

(***************************************************************************)
(* Text literals: the bytes of an ASCII string literal of the source.      *)
(***************************************************************************)
Printable ==
    " +,-./0123456789<>ABCDEFGHIJKLMNOPQRSTUVWXYZ[]_abcdefghijklmnopqrstuvwxyz"

PrintableCode ==
    <<32, 43, 44, 45, 46, 47, 48, 49, 50, 51, 52, 53, 54, 55, 56, 57,
      60, 62, 65, 66, 67, 68, 69, 70, 71, 72, 73, 74, 75, 76, 77, 78,
      79, 80, 81, 82, 83, 84, 85, 86, 87, 88, 89, 90, 91, 93, 95, 97,
      98, 99, 100, 101, 102, 103, 104, 105, 106, 107, 108, 109, 110, 111, 112, 113,
      114, 115, 116, 117, 118, 119, 120, 121, 122>>

CharCode(c) ==
    PrintableCode[CHOOSE i \in 1..Len(Printable) : SubSeq(Printable, i, i) = c]

Lit(s) == [i \in 1..Len(s) |-> CharCode(SubSeq(s, i, i))]

(***************************************************************************)
(* Reader results.                                                         *)
(***************************************************************************)
Ok(p, v) == [ok |-> TRUE, pos |-> p, val |-> v, err |-> "none"]

Fail(e) == [ok |-> FALSE, pos |-> 0, val |-> <<>>, err |-> e]

\* `let x = v; body(x)`: v is evaluated once and body sees its value.
Let(v, body(_)) == CHOOSE y \in {body(x) : x \in {v}} : TRUE

\* `let x = v?; body(x)`: an Err of v is returned as it is.
Try(v, body(_)) == CHOOSE y \in {IF x.ok THEN body(x) ELSE x : x \in {v}} : TRUE

NoResult == [ok |-> FALSE, pos |-> 0, val |-> <<>>, err |-> "unset"]

(***************************************************************************)
(* Fixed-width little-endian integers (binrw's BinRead / BinWrite for u8   *)
(* and u32 under read_le / write_le).                                      *)
(***************************************************************************)
ReadU8(b, p) ==
    IF p + 1 > Len(b) THEN Fail("eof") ELSE Ok(p + 1, b[p + 1])

ReadU32(b, p) ==
    IF p + 4 > Len(b) THEN Fail("eof")
    ELSE Ok(p + 4, b[p + 1] + 256 * b[p + 2] + 65536 * b[p + 3] + 16777216 * b[p + 4])

WriteU32(n) ==
    <<n % 256, (n \div 256) % 256, (n \div 65536) % 256, (n \div 16777216) % 256>>

ReadRaw(b, p, n) ==
    IF p + n > Len(b) THEN Fail("eof") ELSE Ok(p + n, SubSeq(b, p + 1, p + n))

(***************************************************************************)
(* NullString -> String: `s.to_string()` goes through Display, which       *)
(* decodes UTF-8 and writes U+FFFD (EF BF BD) for every ill-formed         *)
(* subsequence; an incomplete sequence at the end gives one U+FFFD.        *)
(***************************************************************************)
REPLACEMENT_CHARACTER == <<239, 191, 189>>

Utf8Width(x) ==
    IF x < 128 THEN 1
    ELSE IF x >= 194 /\ x <= 223 THEN 2
    ELSE IF x >= 224 /\ x <= 239 THEN 3
    ELSE IF x >= 240 /\ x <= 244 THEN 4
    ELSE 0

Utf8SecondOk(first, x) ==
    CASE first = 224 -> x >= 160 /\ x <= 191
      [] first = 237 -> x >= 128 /\ x <= 159
      [] first = 240 -> x >= 144 /\ x <= 191
      [] first = 244 -> x >= 128 /\ x <= 143
      [] OTHER -> x >= 128 /\ x <= 191

\* The scalar value starting at raw[i]: n bytes taken; kind "valid",
\* "invalid" (error_len = n) or "incomplete" (error_len = None).
RECURSIVE Utf8Scan(_, _, _, _)
Utf8Scan(raw, i, w, k) ==
    IF k > w THEN [kind |-> "valid", n |-> w]
    ELSE IF i + k - 1 > Len(raw) THEN [kind |-> "incomplete", n |-> k - 1]
    ELSE IF (k = 2 /\ ~Utf8SecondOk(raw[i], raw[i + 1]))
            \/ (k > 2 /\ ~(raw[i + k - 1] >= 128 /\ raw[i + k - 1] <= 191))
         THEN [kind |-> "invalid", n |-> k - 1]
    ELSE Utf8Scan(raw, i, w, k + 1)

RECURSIVE LossyFrom(_, _)
LossyFrom(raw, i) ==
    IF i > Len(raw) THEN <<>>
    ELSE IF Utf8Width(raw[i]) = 0 THEN REPLACEMENT_CHARACTER \o LossyFrom(raw, i + 1)
    ELSE LET s == Utf8Scan(raw, i, Utf8Width(raw[i]), 2) IN
         CASE s.kind = "valid" -> SubSeq(raw, i, i + s.n - 1) \o LossyFrom(raw, i + s.n)
           [] s.kind = "invalid" -> REPLACEMENT_CHARACTER \o LossyFrom(raw, i + s.n)
           [] OTHER -> REPLACEMENT_CHARACTER

\* ASCII bytes are well-formed one-byte sequences: the text is the bytes.
ToStringLossy(raw) ==
    IF \A i \in 1..Len(raw) : raw[i] < 128 THEN raw ELSE LossyFrom(raw, 1)

(***************************************************************************)
(* FString.                                                                *)
(***************************************************************************)
\* Offset of the first NUL at or after offset q, or -1 when the stream ends first.
FindNul(b, q) ==
    IF \E i \in (q + 1)..Len(b) : b[i] = 0
    THEN (CHOOSE i \in (q + 1)..Len(b) : b[i] = 0 /\ \A j \in (q + 1)..(i - 1) : b[j] # 0) - 1
    ELSE -1

\* #[br] of FString: u32 size, then a NullString (bytes up to the first NUL,
\* whatever size says), then assert(string.len() as u32 == size - 1).  With
\* size = 0 the subtraction overflows: a panic with overflow checks, and
\* u32::MAX (which no length in this model equals) without them.
ReadFString(b, p) ==
    Try(ReadU32(b, p), LAMBDA size :
    Let(FindNul(b, size.pos), LAMBDA nul :
        IF nul < 0 THEN Fail("eof")
        ELSE IF size.val = 0
        THEN (IF overflow_checks THEN Fail("panic") ELSE Fail("bad"))
        ELSE Let(ToStringLossy(SubSeq(b, size.pos + 1, nul)), LAMBDA string :
                 IF Len(string) = size.val - 1 THEN Ok(nul + 1, string) ELSE Fail("bad"))))

\* #[bw] of FString: size is calc = string.len() as u32 + 1, then the string
\* as a NullString (its bytes and one NUL).
FStringWriteLenMutant(string) == WriteU32(Len(string)) \o string \o <<0>>

WriteFString(string) == WriteU32(Len(string) + 1) \o string \o <<0>>

FStringByteSize(string) == Len(string) + 4 + 1

(***************************************************************************)
(* Guid text form.                                                         *)
(***************************************************************************)
GuidLen == 16

DASH == 45

\* {:02x}: two lowercase hexadecimal digits.
HexDigitUpperMutant(d) == IF d < 10 THEN 48 + d ELSE 55 + d

HexDigit(d) == IF d < 10 THEN 48 + d ELSE 87 + d

Hex02(x) == <<HexDigit(x \div 16), HexDigit(x % 16)>>

RECURSIVE HexRun(_, _, _)
HexRun(g, from, to) ==
    IF from > to THEN <<>> ELSE Hex02(g[from]) \o HexRun(g, from + 1, to)

\* impl Display for Guid.  g[1..16] are b[0..15].
GuidToString(g) ==
    HexRun(g, 1, 4) \o <<DASH>> \o HexRun(g, 5, 6) \o <<DASH>> \o HexRun(g, 7, 8)
        \o <<DASH>> \o HexRun(g, 9, 10) \o <<DASH>> \o HexRun(g, 11, 16)

\* char::to_digit(16): -1 when the character is no hexadecimal digit.
ToDigit16(c) ==
    IF c >= 48 /\ c <= 57 THEN c - 48
    ELSE IF c >= 97 /\ c <= 102 THEN c - 87
    ELSE IF c >= 65 /\ c <= 70 THEN c - 55
    ELSE -1

\* u8::from_str_radix(chunk, 16) on a two-character chunk: one leading '+'
\* is accepted as a sign, every other character must be a digit.
FromStrRadix16(chunk) ==
    IF chunk[1] = 43
    THEN (IF ToDigit16(chunk[2]) >= 0 THEN Ok(0, ToDigit16(chunk[2])) ELSE Fail("bad"))
    ELSE IF ToDigit16(chunk[1]) >= 0 /\ ToDigit16(chunk[2]) >= 0
         THEN Ok(0, 16 * ToDigit16(chunk[1]) + ToDigit16(chunk[2]))
    ELSE Fail("bad")

RemoveDashes(s) == SelectSeq(s, LAMBDA c : c # DASH)

\* impl FromStr for Guid.
GuidFromStr(s) ==
    LET clean == RemoveDashes(s) IN
    IF Len(clean) # 2 * GuidLen THEN Fail("bad")
    ELSE IF \E i \in 1..Len(clean) : clean[i] >= 128 THEN Fail("bad")
    ELSE LET parts == [i \in 1..GuidLen |-> FromStrRadix16(SubSeq(clean, 2 * i - 1, 2 * i))] IN
         IF \E i \in 1..GuidLen : ~parts[i].ok THEN Fail("bad")
         ELSE Ok(0, [i \in 1..GuidLen |-> parts[i].val])

(***************************************************************************)
(* Names the codec dispatches on.                                          *)
(***************************************************************************)
TN == [Str |-> Lit("StrProperty"), Bool |-> Lit("BoolProperty"),
       Byte |-> Lit("ByteProperty"), Int |-> Lit("IntProperty"),
       Float |-> Lit("FloatProperty"), Double |-> Lit("DoubleProperty"),
       Text |-> Lit("TextProperty"), Enum |-> Lit("EnumProperty"),
       Name |-> Lit("NameProperty"), Object |-> Lit("ObjectProperty"),
       Struct |-> Lit("StructProperty"), Array |-> Lit("ArrayProperty"),
       Map |-> Lit("MapProperty")]

NONE_NAME == Lit("None")

CLASS_NAME == Lit("Class")

DATA_NAME == Lit("Data")

GAMEPLAY_TAG_CONTAINER_TYPE == Lit("StructProperty</Script/GameplayTags.GameplayTagContainer>")

CORE_UOBJECT_TYPE_PREFIX == Lit("StructProperty</Script/CoreUObject.")

CUSTOM_STRUCT_CLASSES ==
    <<[class |-> Lit("/Script/GameNoce.NocePlayerInventoryComponent"), footer_size |-> 8],
      [class |-> Lit("/Script/GameNoce.NocePlayerTriggerBase"), footer_size |-> 8],
      [class |-> Lit("/Script/GameNoce.NocePlayerCharacter"), footer_size |-> 8],
      [class |-> Lit("/Script/GameNoce.NocePlayerState"), footer_size |-> 8],
      [class |-> Lit("/Script/GameNoce.NoceBodyPartGroupComponent"), footer_size |-> 8],
      [class |-> Lit("/Script/GameNoce.NoceEnemyCharacter"), footer_size |-> 8],
      [class |-> Lit("/Script/GameNoce.NoceMapIconComponent"), footer_size |-> 8],
      [class |-> Lit("/Script/Engine.ActorComponent"), footer_size |-> 8],
      [class |-> Lit("/Script/GameNoce.NoceEnvironmentSubsystem"), footer_size |-> 4],
      [class |-> Lit("/Script/GameNoce.NoceWorldManagerSubsystem"), footer_size |-> 4],
      [class |-> Lit("/Script/GameNoce.MucusSubsystem"), footer_size |-> 4],
      [class |-> Lit("/Script/GameNoce.NoceAchievementSubsystem"), footer_size |-> 4],
      [class |-> Lit("/Script/GameNoce.NoceActivitySubsystem"), footer_size |-> 4],
      [class |-> Lit("/Script/GameNoce.NoceItemSubsystem"), footer_size |-> 4],
      [class |-> Lit("/Script/GameNoce.NoceOmamoriDrawingSubsystem"), footer_size |-> 4],
      [class |-> Lit("/Script/GameNoce.NocePickupsHelperSubsystem"), footer_size |-> 4],
      [class |-> Lit("/Script/GameNoce.NoceTutorialSubsystem"), footer_size |-> 4],
      [class |-> Lit("/Script/GameNoce.NoceAISystem"), footer_size |-> 4],
      [class |-> Lit("/Script/GameNoce.NoceDialogSubsystem"), footer_size |-> 4],
      [class |-> Lit("/Script/GameNoce.NoceGameClockSubsystem"), footer_size |-> 4],
      [class |-> Lit("/Script/GameNoce.NoceBinkSubsystem"), footer_size |-> 4],
      [class |-> Lit("/Script/GameNoce.NoceHitPerformDataSubsystem"), footer_size |-> 4],
      [class |-> Lit("/Script/GameNoce.NocePlayerLookAtSubsystem"), footer_size |-> 4],
      [class |-> Lit("/Script/GameNoce.NoceTentacleSubsystem"), footer_size |-> 4],
      [class |-> Lit("/Script/GameNoce.NoceUIMissionSubsystem"), footer_size |-> 4],
      [class |-> Lit("/Script/GameNoce.NoceBattlePositionSubsystem"), footer_size |-> 4],
      [class |-> Lit("/Script/GameNoce.NocePickupsSubsystem"), footer_size |-> 4]>>

\* The fixed layouts of uobject.rs: name, size() and the widths of the fields
\* the derived reader and writer go through, in order.
CORE_UOBJECTS ==
    <<[name |-> Lit("DateTime"), size |-> 8, fields |-> <<8>>],
      [name |-> Lit("Timespan"), size |-> 8, fields |-> <<8>>],
      [name |-> Lit("Vector"), size |-> 24, fields |-> <<8, 8, 8>>],
      [name |-> Lit("Quat"), size |-> 32, fields |-> <<8, 8, 8, 8>>],
      [name |-> Lit("LinearColor"), size |-> 16, fields |-> <<4, 4, 4, 4>>]>>

IsPrefix(pre, s) == Len(pre) <= Len(s) /\ SubSeq(s, 1, Len(pre)) = pre

(***************************************************************************)
(* PropertyType: [name, tags, inner_types]; a tag is [kind, value].        *)
(***************************************************************************)
\* read_tags: the kind == 0 word ends the list and is not stored.
RECURSIVE ReadTags(_, _, _)
ReadTags(b, p, tags) ==
    Try(ReadU32(b, p), LAMBDA kind :
        IF kind.val = 0 THEN Ok(kind.pos, tags)
        ELSE Try(ReadFString(b, kind.pos), LAMBDA value :
                 ReadTags(b, value.pos, Append(tags, [kind |-> kind.val, value |-> value.val]))))

NumInnerTypesNoArrayOfMapsMutant(name, tags) ==
    IF name = TN.Enum THEN 1
    ELSE IF name = TN.Map
         THEN (IF Len(tags) >= 1 /\ tags[1].value = TN.Enum THEN 2 ELSE 1)
    ELSE IF name = TN.Array
         THEN (IF Len(tags) >= 1 /\ tags[1].value = TN.Enum THEN 1 ELSE 0)
    ELSE 0

num_inner_types(name, tags) ==
    IF name = TN.Enum THEN 1
    ELSE IF name = TN.Map
         THEN (IF Len(tags) >= 1 /\ tags[1].value = TN.Enum THEN 2 ELSE 1)
    ELSE IF name = TN.Array
         THEN (IF Len(tags) >= 1 /\ tags[1].value = TN.Enum THEN 1
               ELSE IF Len(tags) >= 1 /\ tags[1].value = TN.Map
                    THEN (IF Len(tags) >= 2 /\ tags[2].value = TN.Enum THEN 2 ELSE 1)
               ELSE 0)
    ELSE 0

RECURSIVE ReadType(_, _), ReadInnerTypes(_, _, _, _)
\* #[br] of PropertyType: name, tags, then num_inner_types(name, tags) inner types.
ReadType(b, p) ==
    Try(ReadFString(b, p), LAMBDA name :
    Try(ReadTags(b, name.pos, <<>>), LAMBDA tags :
    Try(ReadInnerTypes(b, tags.pos, num_inner_types(name.val, tags.val), <<>>), LAMBDA inner :
        Ok(inner.pos, [name |-> name.val, tags |-> tags.val, inner_types |-> inner.val]))))

ReadInnerTypes(b, p, count, types) ==
    IF count = 0 THEN Ok(p, types)
    ELSE Try(ReadType(b, p), LAMBDA ty :
             ReadInnerTypes(b, ty.pos, count - 1, Append(types, ty.val)))

RECURSIVE WriteTagsUnterminatedMutant(_)
WriteTagsUnterminatedMutant(tags) ==
    IF tags = <<>> THEN <<>>
    ELSE WriteU32(Head(tags).kind) \o WriteFString(Head(tags).value)
             \o WriteTagsUnterminatedMutant(Tail(tags))

\* write_tags: every tag, then the u32 0 terminator.
RECURSIVE WriteTags(_)
WriteTags(tags) ==
    IF tags = <<>> THEN WriteU32(0)
    ELSE WriteU32(Head(tags).kind) \o WriteFString(Head(tags).value) \o WriteTags(Tail(tags))

RECURSIVE WriteType(_), WriteInnerTypes(_)
WriteType(ty) == WriteFString(ty.name) \o WriteTags(ty.tags) \o WriteInnerTypes(ty.inner_types)

WriteInnerTypes(types) ==
    IF types = <<>> THEN <<>> ELSE WriteType(Head(types)) \o WriteInnerTypes(Tail(types))

RECURSIVE TagsSize(_)
TagsSize(tags) ==
    IF tags = <<>> THEN 0 ELSE 4 + FStringByteSize(Head(tags).value) + TagsSize(Tail(tags))

RECURSIVE TypeSize(_), InnerTypesSize(_)
\* PropertyType::size
TypeSize(ty) == FStringByteSize(ty.name) + TagsSize(ty.tags) + 4 + InnerTypesSize(ty.inner_types)

InnerTypesSize(types) ==
    IF types = <<>> THEN 0 ELSE TypeSize(Head(types)) + InnerTypesSize(Tail(types))

RECURSIVE describe_by_name(_, _, _)
describe_by_name(name, tags, inner_types) ==
    IF tags = <<>> THEN name
    ELSE IF name = TN.Struct \/ name = TN.Enum
         THEN name \o Lit("<")
                   \o (IF Len(tags) >= 2 THEN tags[2].value \o Lit(".") ELSE <<>>)
                   \o tags[1].value \o Lit(">")
    ELSE IF name = TN.Array
         THEN name \o Lit("[") \o describe_by_name(tags[1].value, Tail(tags), inner_types) \o Lit("]")
    ELSE IF name = TN.Map /\ inner_types # <<>>
         THEN LET value_type == inner_types[Len(inner_types)] IN
              name \o Lit("<") \o describe_by_name(tags[1].value, Tail(tags), inner_types)
                   \o Lit(", ")
                   \o describe_by_name(value_type.name, value_type.tags, value_type.inner_types)
                   \o Lit(">")
    ELSE name

describe(ty) == describe_by_name(ty.name, ty.tags, ty.inner_types)

\* PropertyType::element_type
ElementTypeKeepsTagsMutant(ty) ==
    IF (ty.name = TN.Array \/ ty.name = TN.Map) /\ ty.tags # <<>>
    THEN [name |-> ty.tags[1].value, tags |-> ty.tags, inner_types |-> <<>>]
    ELSE ty

element_type(ty) ==
    IF (ty.name = TN.Array \/ ty.name = TN.Map) /\ ty.tags # <<>>
    THEN [name |-> ty.tags[1].value,
          tags |-> Tail(ty.tags),
          inner_types |-> IF ty.tags[1].value = TN.Enum /\ ty.inner_types # <<>>
                          THEN <<ty.inner_types[1]>> ELSE <<>>]
    ELSE IF ty.name = TN.Struct /\ describe(ty) = GAMEPLAY_TAG_CONTAINER_TYPE
         THEN [name |-> TN.Name, tags |-> <<>>, inner_types |-> <<>>]
    ELSE ty

(***************************************************************************)
(* PropertyValue.  A value is a record whose field k names the variant:    *)
(*   StrProperty / EnumProperty / NameProperty / ObjectProperty [s]        *)
(*   BoolProperty [some, b]   (Option<bool>: None is some = FALSE)         *)
(*   ByteProperty [n]   IntProperty [n]                                    *)
(*   FloatProperty / DoubleProperty [bits]  (the 4 / 8 bytes of the float) *)
(*   TextProperty [flags, data]   StructProperty [props]                   *)
(*   CustomStructProperty [flags, props, extra]                            *)
(*   CoreUObjectStructProperty [name, fields]                              *)
(*   ArrayProperty [values]   MapProperty [removed_count, values]          *)
(*   UnknownProperty [bytes]                                               *)
(* A Property is [name, body] with body = <<>> (None) or <<b>> (Some(b));  *)
(* a PropertyBody is [property_type, flags, value] and, for the claims     *)
(* only, what the reader saw and the struct does not keep: read_size (the  *)
(* u32 data_size, a calc field dropped on read) and at / upto (the         *)
(* positions where the value started and ended).                           *)
(***************************************************************************)
ReadI32(b, p) ==
    IF p + 4 > Len(b) THEN Fail("eof")
    ELSE Ok(p + 4, b[p + 1] + 256 * b[p + 2] + 65536 * b[p + 3]
                     + 16777216 * (IF b[p + 4] >= 128 THEN b[p + 4] - 256 ELSE b[p + 4]))

\* (end - current) as u32 when current > end: the u64 subtraction wraps and
\* the cast keeps 2^32 - (current - end), a size beyond every stream here.
WRAPPED_SIZE == 1073741824

RECURSIVE ReadFStrings(_, _, _, _)
ReadFStrings(b, p, count, strings) ==
    IF count = 0 THEN Ok(p, strings)
    ELSE Try(ReadFString(b, p), LAMBDA s :
             ReadFStrings(b, s.pos, count - 1, Append(strings, s.val)))

\* TextData: the variant is chosen by the i8 magic (-1, 0, 9, 11).
ReadTextData(b, p) ==
    Try(ReadU8(b, p), LAMBDA magic :
        IF magic.val = 255
        THEN Try(ReadU32(b, magic.pos), LAMBDA count :
             Try(ReadFStrings(b, count.pos, count.val, <<>>), LAMBDA values :
                 Ok(values.pos, [tag |-> "None", values |-> values.val])))
        ELSE IF magic.val = 0
        THEN Try(ReadFStrings(b, magic.pos, 3, <<>>), LAMBDA f :
                 Ok(f.pos, [tag |-> "Base", namespace |-> f.val[1], key |-> f.val[2],
                            source_string |-> f.val[3]]))
        ELSE IF magic.val = 9
        THEN Try(ReadRaw(b, magic.pos, 10), LAMBDA fixed :
             Try(ReadFStrings(b, fixed.pos, 2, <<>>), LAMBDA f :
                 Ok(f.pos, [tag |-> "AsDateTime", ticks |-> SubSeq(fixed.val, 1, 8),
                            date_style |-> fixed.val[9], time_style |-> fixed.val[10],
                            time_zone |-> f.val[1], culture_name |-> f.val[2]])))
        ELSE IF magic.val = 11
        THEN Try(ReadFStrings(b, magic.pos, 2, <<>>), LAMBDA f :
                 Ok(f.pos, [tag |-> "StringTableEntry", table |-> f.val[1], key |-> f.val[2]]))
        ELSE Fail("bad"))

RECURSIVE WriteFStrings(_)
WriteFStrings(strings) ==
    IF strings = <<>> THEN <<>> ELSE WriteFString(Head(strings)) \o WriteFStrings(Tail(strings))

WriteTextData(data) ==
    CASE data.tag = "None" ->
             <<255>> \o WriteU32(Len(data.values)) \o WriteFStrings(data.values)
      [] data.tag = "Base" ->
             <<0>> \o WriteFString(data.namespace) \o WriteFString(data.key)
                   \o WriteFString(data.source_string)
      [] data.tag = "AsDateTime" ->
             <<9>> \o data.ticks \o <<data.date_style, data.time_style>>
                   \o WriteFString(data.time_zone) \o WriteFString(data.culture_name)
      [] data.tag = "StringTableEntry" ->
             <<11>> \o WriteFString(data.table) \o WriteFString(data.key)

RECURSIVE FStringsSize(_)
FStringsSize(strings) ==
    IF strings = <<>> THEN 0 ELSE FStringByteSize(Head(strings)) + FStringsSize(Tail(strings))

\* TextData::size
TextDataSize(data) ==
    1 + CASE data.tag = "None" -> 4 + FStringsSize(data.values)
          [] data.tag = "Base" ->
                 FStringByteSize(data.namespace) + FStringByteSize(data.key)
                     + FStringByteSize(data.source_string)
          [] data.tag = "AsDateTime" ->
                 10 + FStringByteSize(data.time_zone) + FStringByteSize(data.culture_name)
          [] data.tag = "StringTableEntry" ->
                 FStringByteSize(data.table) + FStringByteSize(data.key)

\* TextFlags::from_bits(u32).unwrap(): `const _ = !0` makes every bit a
\* known one, so the four bytes are kept as read.
TextFlagsNamedBitsMutant(bytes) == <<bytes[1] % 32, 0, 0, 0>>

TextFlagsFromBits(bytes) == bytes

StringVariants == {"StrProperty", "EnumProperty", "NameProperty", "ObjectProperty"}

StringValue(k, s) == [k |-> k, s |-> s]

UnknownProperty(bytes) == [k |-> "UnknownProperty", bytes |-> bytes]

\* The index in CORE_UOBJECTS of the layout named type_name, 0 when
\* try_read_uobject / make_default_uobject give None.
UObjectIndexNoQuatMutant(type_name) ==
    IF \E i \in 1..3 : CORE_UOBJECTS[i].name = type_name
    THEN CHOOSE i \in 1..3 : CORE_UOBJECTS[i].name = type_name
    ELSE 0

UObjectIndex(type_name) ==
    IF \E i \in 1..Len(CORE_UOBJECTS) : CORE_UOBJECTS[i].name = type_name
    THEN CHOOSE i \in 1..Len(CORE_UOBJECTS) : CORE_UOBJECTS[i].name = type_name
    ELSE 0

\* CoreUObject::size of the object named type_name
UObjectSize(type_name) == CORE_UOBJECTS[UObjectIndex(type_name)].size

\* The derived BinRead of a layout: its fields, one after the other.
RECURSIVE ReadFields(_, _, _, _)
ReadFields(b, p, widths, fields) ==
    IF widths = <<>> THEN Ok(p, fields)
    ELSE Try(ReadRaw(b, p, Head(widths)), LAMBDA field :
             ReadFields(b, field.pos, Tail(widths), Append(fields, field.val)))

\* write_uobject / uobject_to_bytes: the fields, one after the other.
RECURSIVE WriteFields(_)
WriteFields(fields) ==
    IF fields = <<>> THEN <<>> ELSE Head(fields) \o WriteFields(Tail(fields))

\* The string variant a type name selects.
StringVariantOf(type_name) ==
    IF type_name = TN.Str THEN "StrProperty"
    ELSE IF type_name = TN.Enum THEN "EnumProperty"
    ELSE IF type_name = TN.Name THEN "NameProperty"
    ELSE "ObjectProperty"

\* let mut buf = vec![0u8; data_size]; reader.read_exact(&mut buf)?
ReadUnknown(b, p, data_size) ==
    Try(ReadRaw(b, p, data_size), LAMBDA buf : Ok(buf.pos, UnknownProperty(buf.val)))

IsNonePropertyNeverMutant(prop) == FALSE

IsNoneProperty(prop) == prop.body = <<>>

\* Property::custom_struct_footer_size: -1 stands for None.
custom_struct_footer_size(prop) ==
    IF prop.name = CLASS_NAME /\ prop.body # <<>> /\ prop.body[1].value.k = "ObjectProperty"
          /\ \E i \in 1..Len(CUSTOM_STRUCT_CLASSES) :
                 CUSTOM_STRUCT_CLASSES[i].class = prop.body[1].value.s
    THEN CUSTOM_STRUCT_CLASSES[CHOOSE i \in 1..Len(CUSTOM_STRUCT_CLASSES) :
             CUSTOM_STRUCT_CLASSES[i].class = prop.body[1].value.s
             /\ \A j \in 1..(i - 1) : CUSTOM_STRUCT_CLASSES[j].class # prop.body[1].value.s].footer_size
    ELSE -1

\* Property::is_custom_struct_data
is_custom_struct_data(prop) ==
    /\ prop.name = DATA_NAME
    /\ prop.body # <<>>
    /\ prop.body[1].value.k = "ArrayProperty"
    /\ Len(prop.body[1].value.values) = 1
    /\ prop.body[1].value.values[1].k = "UnknownProperty"

(***************************************************************************)
(* The reader: impl BinRead for PropertyValue, PropertyBody, Property,     *)
(* read_properties_with_footer and CustomStruct.                           *)
(***************************************************************************)
RECURSIVE ReadValue(_, _, _, _, _), ReadVariant(_, _, _, _, _), ReadBody(_, _),
          ReadProperty(_, _), ReadStructProps(_, _, _, _, _),
          ReadElements(_, _, _, _, _, _, _), ReadPairs(_, _, _, _, _, _, _, _),
          ReadPropsLoop(_, _, _, _, _), read_properties_with_footer(_, _, _),
          ReadCustomStruct(_, _), parse_custom_struct_data(_, _)

\* PropertyValue::read_options: the match on the type name, then the size
\* check, which panics when the value ended beyond start + data_size.
ReadValue(b, p, ty, flags, data_size) ==
    Try(ReadVariant(b, p, ty, flags, data_size), LAMBDA value :
        IF value.pos > p + data_size THEN Fail("panic") ELSE value)

ReadVariant(b, p, ty, flags, data_size) ==
    IF ty.name = TN.Str \/ ty.name = TN.Enum \/ ty.name = TN.Name \/ ty.name = TN.Object
    THEN Try(ReadFString(b, p), LAMBDA s :
             Ok(s.pos, StringValue(StringVariantOf(ty.name), s.val)))
    ELSE IF ty.name = TN.Bool
    THEN IF data_size = 0
         THEN Ok(p, [k |-> "BoolProperty", some |-> FALSE, b |-> FALSE])
         ELSE Try(ReadU8(b, p), LAMBDA byte :
                  Ok(byte.pos, [k |-> "BoolProperty", some |-> TRUE, b |-> byte.val # 0]))
    ELSE IF ty.name = TN.Byte
    THEN IF data_size = 1
         THEN Try(ReadU8(b, p), LAMBDA byte : Ok(byte.pos, [k |-> "ByteProperty", n |-> byte.val]))
         ELSE Let(IF ty.tags # <<>> THEN ReadFString(b, p) ELSE Fail("untried"), LAMBDA s :
                  IF s.ok THEN Ok(s.pos, StringValue("EnumProperty", s.val))
                  ELSE IF s.err = "panic" THEN s
                  ELSE ReadUnknown(b, p, data_size))
    ELSE IF ty.name = TN.Int
    THEN Try(ReadI32(b, p), LAMBDA i : Ok(i.pos, [k |-> "IntProperty", n |-> i.val]))
    ELSE IF ty.name = TN.Float
    THEN Try(ReadRaw(b, p, 4), LAMBDA f : Ok(f.pos, [k |-> "FloatProperty", bits |-> f.val]))
    ELSE IF ty.name = TN.Double
    THEN Try(ReadRaw(b, p, 8), LAMBDA f : Ok(f.pos, [k |-> "DoubleProperty", bits |-> f.val]))
    ELSE IF ty.name = TN.Text
    THEN Try(ReadRaw(b, p, 4), LAMBDA bits :
         Try(ReadTextData(b, bits.pos), LAMBDA data :
             Ok(data.pos, [k |-> "TextProperty", flags |-> TextFlagsFromBits(bits.val),
                           data |-> data.val])))
    ELSE IF ty.name = TN.Struct
    THEN IF flags # 0
         THEN Let(describe(ty), LAMBDA description :
                  IF description = GAMEPLAY_TAG_CONTAINER_TYPE
                  THEN Try(ReadU32(b, p), LAMBDA count :
                       Try(ReadFStrings(b, count.pos, count.val, <<>>), LAMBDA names :
                           Ok(names.pos,
                              [k |-> "ArrayProperty",
                               values |-> [i \in 1..Len(names.val) |->
                                              StringValue("NameProperty", names.val[i])]])))
                  ELSE IF IsPrefix(CORE_UOBJECT_TYPE_PREFIX, description)
                          /\ UObjectIndex(ty.tags[1].value) > 0
                  THEN Try(ReadFields(b, p, CORE_UOBJECTS[UObjectIndex(ty.tags[1].value)].fields,
                                      <<>>), LAMBDA object :
                           Ok(object.pos, [k |-> "CoreUObjectStructProperty",
                                           name |-> ty.tags[1].value, fields |-> object.val]))
                  ELSE ReadUnknown(b, p, data_size))
         ELSE Try(ReadStructProps(b, p, p + data_size, -1, <<>>), LAMBDA props :
                  Ok(props.pos, [k |-> "StructProperty", props |-> props.val]))
    ELSE IF ty.name = TN.Array
    THEN Try(ReadU32(b, p), LAMBDA count :
             IF element_type(ty).name = TN.Byte
             THEN Try(ReadRaw(b, count.pos, count.val), LAMBDA buf :
                      Ok(buf.pos, [k |-> "ArrayProperty",
                                   values |-> <<UnknownProperty(buf.val)>>]))
             ELSE Try(ReadElements(b, count.pos, p + data_size, element_type(ty), flags,
                                   count.val, <<>>), LAMBDA values :
                      Ok(values.pos, [k |-> "ArrayProperty", values |-> values.val])))
    ELSE IF ty.name = TN.Map
    THEN IF ty.inner_types = <<>> THEN Fail("panic")
         ELSE Try(ReadU32(b, p), LAMBDA removed_count :
              Try(ReadU32(b, removed_count.pos), LAMBDA count :
              Try(ReadPairs(b, count.pos, p + data_size, element_type(ty),
                            ty.inner_types[Len(ty.inner_types)], flags, count.val, <<>>),
                  LAMBDA values :
                  Ok(values.pos, [k |-> "MapProperty", removed_count |-> removed_count.val,
                                  values |-> values.val]))))
    ELSE ReadUnknown(b, p, data_size)

ReadStructPropsLastClassMutant(b, p, end, footer, props) ==
    IF ~(p < end) THEN Ok(p, props)
    ELSE Try(ReadProperty(b, p), LAMBDA read :
         Try(IF footer >= 0 THEN parse_custom_struct_data(read.val, footer)
             ELSE Ok(0, read.val), LAMBDA prop :
             IF IsNoneProperty(prop.val) THEN Ok(read.pos, Append(props, prop.val))
             ELSE ReadStructProps(b, read.pos, end,
                                  IF custom_struct_footer_size(prop.val) >= 0
                                  THEN custom_struct_footer_size(prop.val)
                                  ELSE footer,
                                  Append(props, prop.val))))

\* The StructProperty loop (flags == 0): footer is the custom struct footer
\* size found so far, -1 for None.
ReadStructProps(b, p, end, footer, props) ==
    IF ~(p < end) THEN Ok(p, props)
    ELSE Try(ReadProperty(b, p), LAMBDA read :
         Try(IF footer >= 0 THEN parse_custom_struct_data(read.val, footer)
             ELSE Ok(0, read.val), LAMBDA prop :
             IF IsNoneProperty(prop.val) THEN Ok(read.pos, Append(props, prop.val))
             ELSE ReadStructProps(b, read.pos, end,
                                  IF footer < 0 THEN custom_struct_footer_size(prop.val)
                                  ELSE footer,
                                  Append(props, prop.val))))

\* The ArrayProperty loop: every element is bounded by what is left of the
\* array's data_size.  (end - current) underflows when current > end.
ReadElements(b, p, end, elem, flags, count, values) ==
    IF count = 0 THEN Ok(p, values)
    ELSE IF p > end /\ overflow_checks THEN Fail("panic")
    ELSE Try(ReadValue(b, p, elem, flags, IF p > end THEN WRAPPED_SIZE ELSE end - p),
             LAMBDA value :
             ReadElements(b, value.pos, end, elem, flags, count - 1,
                          Append(values, value.val)))

\* The MapProperty loop.
ReadPairs(b, p, end, key_type, value_type, flags, count, values) ==
    IF count = 0 THEN Ok(p, values)
    ELSE IF p > end /\ overflow_checks THEN Fail("panic")
    ELSE Try(ReadValue(b, p, key_type, flags, IF p > end THEN WRAPPED_SIZE ELSE end - p),
             LAMBDA key :
             IF key.pos > end /\ overflow_checks THEN Fail("panic")
             ELSE Try(ReadValue(b, key.pos, value_type, flags,
                                IF key.pos > end THEN WRAPPED_SIZE ELSE end - key.pos),
                      LAMBDA value :
                      ReadPairs(b, value.pos, end, key_type, value_type, flags, count - 1,
                                Append(values, <<key.val, value.val>>))))

\* #[br] of PropertyBody: property_type, data_size, flags, value.
ReadBody(b, p) ==
    Try(ReadType(b, p), LAMBDA ty :
    Try(ReadU32(b, ty.pos), LAMBDA data_size :
    Try(ReadU8(b, data_size.pos), LAMBDA flags :
    Try(ReadValue(b, flags.pos, ty.val, flags.val, data_size.val), LAMBDA value :
        Ok(value.pos, [property_type |-> ty.val, flags |-> flags.val, value |-> value.val,
                       read_size |-> data_size.val, at |-> flags.pos, upto |-> value.pos])))))

\* #[br] of Property: the body is read if name != "None" && name != "".
ReadProperty(b, p) ==
    Try(ReadFString(b, p), LAMBDA name :
        IF name.val = NONE_NAME \/ name.val = <<>>
        THEN Ok(name.pos, [name |-> name.val, body |-> <<>>])
        ELSE Try(ReadBody(b, name.pos), LAMBDA body :
                 Ok(body.pos, [name |-> name.val, body |-> <<body.val>>])))

ReadPropsLoop(b, p, end, footer_size, props) ==
    IF ~(p < end) THEN Ok(p, props)
    ELSE Let(ReadProperty(b, p), LAMBDA prop :
             IF prop.ok
             THEN ReadPropsLoop(b, prop.pos, end, footer_size, Append(props, prop.val))
             ELSE IF prop.err = "eof" /\ footer_size = 0 THEN Ok(p, props)
             ELSE prop)

\* end = eof - footer_size underflows when the stream is shorter than the
\* footer; wrapped, it lies beyond every position of the stream.
read_properties_with_footer(b, p, footer_size) ==
    IF Len(b) < footer_size /\ overflow_checks THEN Fail("panic")
    ELSE ReadPropsLoop(b, p,
                       IF Len(b) < footer_size THEN Len(b) + 1 ELSE Len(b) - footer_size,
                       footer_size, <<>>)

\* #[br] of CustomStruct on a Cursor over the byte array's payload:
\* data_size is #[br(ignore)], then flags, properties, extra.
ReadCustomStruct(data, extra_bytes) ==
    Try(ReadU8(data, 0), LAMBDA flags :
    Try(read_properties_with_footer(data, flags.pos, extra_bytes), LAMBDA props :
    Try(ReadRaw(data, props.pos, extra_bytes), LAMBDA extra :
        Ok(extra.pos, [k |-> "CustomStructProperty", flags |-> flags.val,
                       props |-> props.val, extra |-> extra.val]))))

\* Property::parse_custom_struct_data / PropertyBody::parse_custom_struct
parse_custom_struct_data(prop, footer_size) ==
    IF ~is_custom_struct_data(prop) THEN Ok(0, prop)
    ELSE Try(ReadCustomStruct(prop.body[1].value.values[1].bytes, footer_size),
             LAMBDA custom_struct :
             Ok(0, [prop EXCEPT !.body[1].value = custom_struct.val]))

(***************************************************************************)
(* Sizes: PropertyValue::size, array_len, CustomStruct::size,              *)
(* PropertyBody::size, Property::size.                                     *)
(***************************************************************************)
RECURSIVE ValueSize(_), ValuesSize(_), PairsSize(_), PropsSize(_), PropertySize(_),
          BodySize(_), CustomStructSize(_)

BoolSizeAlwaysOneMutant(value) == 1

\* Self::BoolProperty(None) => 0, Self::BoolProperty(Some(_)) => 1
BoolSize(value) == IF value.some THEN 1 ELSE 0

ValueSize(value) ==
    IF value.k \in StringVariants THEN FStringByteSize(value.s)
    ELSE IF value.k = "BoolProperty" THEN BoolSize(value)
    ELSE IF value.k = "ByteProperty" THEN 1
    ELSE IF value.k = "IntProperty" \/ value.k = "FloatProperty" THEN 4
    ELSE IF value.k = "DoubleProperty" THEN 8
    ELSE IF value.k = "TextProperty" THEN 4 + TextDataSize(value.data)
    ELSE IF value.k = "StructProperty" THEN PropsSize(value.props)
    ELSE IF value.k = "CustomStructProperty" THEN CustomStructSize(value)
    ELSE IF value.k = "CoreUObjectStructProperty" THEN UObjectSize(value.name)
    ELSE IF value.k = "ArrayProperty" THEN 4 + ValuesSize(value.values)
    ELSE IF value.k = "MapProperty" THEN 8 + PairsSize(value.values)
    ELSE Len(value.bytes)

ValuesSize(values) ==
    IF values = <<>> THEN 0 ELSE ValueSize(Head(values)) + ValuesSize(Tail(values))

PairsSize(values) ==
    IF values = <<>> THEN 0
    ELSE ValueSize(Head(values)[1]) + ValueSize(Head(values)[2]) + PairsSize(Tail(values))

PropsSize(props) ==
    IF props = <<>> THEN 0 ELSE PropertySize(Head(props)) + PropsSize(Tail(props))

PropertySize(prop) ==
    FStringByteSize(prop.name) + (IF prop.body = <<>> THEN 0 ELSE BodySize(prop.body[1]))

BodySize(body) == TypeSize(body.property_type) + 4 + 1 + ValueSize(body.value)

CustomStructSize(value) == 4 + 1 + PropsSize(value.props) + Len(value.extra)

ArrayLenChildCountMutant(value) ==
    IF value.k = "CustomStructProperty" THEN CustomStructSize(value)
    ELSE IF value.k = "MapProperty" \/ value.k = "ArrayProperty" THEN Len(value.values)
    ELSE -1

\* PropertyValue::array_len: -1 stands for None.
array_len(value) ==
    IF value.k = "CustomStructProperty" THEN CustomStructSize(value)
    ELSE IF value.k = "MapProperty" THEN Len(value.values)
    ELSE IF value.k = "ArrayProperty"
    THEN (IF Len(value.values) = 1 /\ value.values[1].k = "UnknownProperty"
          THEN Len(value.values[1].bytes)
          ELSE Len(value.values))
    ELSE -1

(***************************************************************************)
(* The writer: #[binwrite] of PropertyValue, CustomStruct, PropertyBody,   *)
(* Property.                                                               *)
(***************************************************************************)
RECURSIVE WriteValue(_), WriteValues(_), WritePairs(_), WriteProps(_), WriteProperty(_),
          WriteBody(_), WriteCustomStruct(_)

\* i32 BinWrite (little endian, two's complement)
WriteI32(n) == WriteU32(n)

WriteBoolAlwaysByteMutant(value) == <<IF value.some /\ value.b THEN 1 ELSE 0>>

\* #[bw(map = |b| b.map(|b| b as u8))] Option<bool>
WriteBool(value) == IF value.some THEN <<IF value.b THEN 1 ELSE 0>> ELSE <<>>

WriteStructAlwaysNoneMutant(props) ==
    WriteProps(props)
        \o (IF props # <<>> /\ props[Len(props)].body = <<>> THEN <<>>
            ELSE WriteFString(NONE_NAME))

\* StructProperty(Vec<Property>): the children, in order, nothing else.
WriteStruct(props) == WriteProps(props)

WriteValue(value) ==
    IF value.k \in StringVariants THEN WriteFString(value.s)
    ELSE IF value.k = "BoolProperty" THEN WriteBool(value)
    ELSE IF value.k = "ByteProperty" THEN <<value.n>>
    ELSE IF value.k = "IntProperty" THEN WriteI32(value.n)
    ELSE IF value.k = "FloatProperty" \/ value.k = "DoubleProperty" THEN value.bits
    ELSE IF value.k = "TextProperty" THEN value.flags \o WriteTextData(value.data)
    ELSE IF value.k = "StructProperty" THEN WriteStruct(value.props)
    ELSE IF value.k = "CustomStructProperty" THEN WriteCustomStruct(value)
    ELSE IF value.k = "CoreUObjectStructProperty" THEN WriteFields(value.fields)
    ELSE IF value.k = "ArrayProperty"
    THEN WriteU32(array_len(value)) \o WriteValues(value.values)
    ELSE IF value.k = "MapProperty"
    THEN WriteU32(value.removed_count) \o WriteU32(array_len(value)) \o WritePairs(value.values)
    ELSE value.bytes

WriteValues(values) ==
    IF values = <<>> THEN <<>> ELSE WriteValue(Head(values)) \o WriteValues(Tail(values))

WritePairs(values) ==
    IF values = <<>> THEN <<>>
    ELSE WriteValue(Head(values)[1]) \o WriteValue(Head(values)[2]) \o WritePairs(Tail(values))

WriteProps(props) ==
    IF props = <<>> THEN <<>> ELSE WriteProperty(Head(props)) \o WriteProps(Tail(props))

WriteProperty(prop) ==
    WriteFString(prop.name) \o (IF prop.body = <<>> THEN <<>> ELSE WriteBody(prop.body[1]))

\* data_size is #[bw(calc = value.size() as u32)]
WriteBody(body) ==
    WriteType(body.property_type) \o WriteU32(ValueSize(body.value)) \o <<body.flags>>
        \o WriteValue(body.value)

\* data_size is #[bw(calc = self.size() as u32 - 4)]
WriteCustomStruct(value) ==
    WriteU32(CustomStructSize(value) - 4) \o <<value.flags>> \o WriteProps(value.props)
        \o value.extra

(***************************************************************************)
(* SaveGame: SaveGameHeader (magic GVAS), CustomFormatData, SaveGameData.  *)
(***************************************************************************)
GVAS == Lit("GVAS")

ReadI16(b, p) ==
    IF p + 2 > Len(b) THEN Fail("eof")
    ELSE Ok(p + 2, b[p + 1] + 256 * (IF b[p + 2] >= 128 THEN b[p + 2] - 256 ELSE b[p + 2]))

WriteI16(n) == <<n % 256, (n \div 256) % 256>>

\* #[br(count = num_entries)] entries: Vec<CustomFormatEntry>
RECURSIVE ReadEntries(_, _, _, _)
ReadEntries(b, p, count, entries) ==
    IF count = 0 THEN Ok(p, entries)
    ELSE Try(ReadRaw(b, p, GuidLen), LAMBDA entry_guid :
         Try(ReadI32(b, entry_guid.pos), LAMBDA value :
             ReadEntries(b, value.pos, count - 1,
                         Append(entries, [guid |-> entry_guid.val, value |-> value.val]))))

RECURSIVE WriteEntries(_)
WriteEntries(entries) ==
    IF entries = <<>> THEN <<>>
    ELSE Head(entries).guid \o WriteI32(Head(entries).value) \o WriteEntries(Tail(entries))

ReadSaveGameHeader(b, p) ==
    Try(ReadRaw(b, p, 4), LAMBDA magic :
        IF magic.val # GVAS THEN Fail("bad")
        ELSE Try(ReadI32(b, magic.pos), LAMBDA save_game_version :
             Try(ReadI32(b, save_game_version.pos), LAMBDA package_version_0 :
             Try(ReadI32(b, package_version_0.pos), LAMBDA package_version_1 :
             Try(ReadI16(b, package_version_1.pos), LAMBDA major :
             Try(ReadI16(b, major.pos), LAMBDA minor :
             Try(ReadI16(b, minor.pos), LAMBDA patch :
             Try(ReadI32(b, patch.pos), LAMBDA build :
             Try(ReadFString(b, build.pos), LAMBDA build_id :
                 Ok(build_id.pos,
                    [save_game_version |-> save_game_version.val,
                     package_version |-> <<package_version_0.val, package_version_1.val>>,
                     engine_version |-> [major |-> major.val, minor |-> minor.val,
                                         patch |-> patch.val, build |-> build.val,
                                         build_id |-> build_id.val]]))))))))))

WriteSaveGameHeader(header) ==
    GVAS \o WriteI32(header.save_game_version)
         \o WriteI32(header.package_version[1]) \o WriteI32(header.package_version[2])
         \o WriteI16(header.engine_version.major) \o WriteI16(header.engine_version.minor)
         \o WriteI16(header.engine_version.patch) \o WriteI32(header.engine_version.build)
         \o WriteFString(header.engine_version.build_id)

ReadCustomFormatData(b, p) ==
    Try(ReadI32(b, p), LAMBDA version :
    Try(ReadU32(b, version.pos), LAMBDA num_entries :
    Try(ReadEntries(b, num_entries.pos, num_entries.val, <<>>), LAMBDA entries :
        Ok(entries.pos, [version |-> version.val, entries |-> entries.val]))))

WriteCustomFormatData(data) ==
    WriteI32(data.version) \o WriteU32(Len(data.entries)) \o WriteEntries(data.entries)

\* SaveGameData: type_name, flags, properties (footer of 4 bytes), extra: u32
ReadSaveGameData(b, p) ==
    Try(ReadFString(b, p), LAMBDA type_name :
    Try(ReadU8(b, type_name.pos), LAMBDA flags :
    Try(read_properties_with_footer(b, flags.pos, 4), LAMBDA properties :
    Try(ReadU32(b, properties.pos), LAMBDA extra :
        Ok(extra.pos, [type_name |-> type_name.val, flags |-> flags.val,
                       properties |-> properties.val, extra |-> extra.val])))))

WriteSaveGameData(data) ==
    WriteFString(data.type_name) \o <<data.flags>> \o WriteProps(data.properties)
        \o WriteU32(data.extra)

\* file.read_le::<SaveGame>()
ReadSaveGame(b) ==
    Try(ReadSaveGameHeader(b, 0), LAMBDA header :
    Try(ReadCustomFormatData(b, header.pos), LAMBDA custom_format_data :
    Try(ReadSaveGameData(b, custom_format_data.pos), LAMBDA save_data :
        Ok(save_data.pos, [header |-> header.val,
                           custom_format_data |-> custom_format_data.val,
                           save_data |-> save_data.val]))))

\* file.write_le(save)
WriteSaveGame(save_game) ==
    WriteSaveGameHeader(save_game.header) \o WriteCustomFormatData(save_game.custom_format_data)
        \o WriteSaveGameData(save_game.save_data)

(***************************************************************************)
(* FString harness: a string is written and the bytes are read back, or    *)
(* raw bytes (a u32 length and a payload) are read.                        *)
(***************************************************************************)
\* The chars a test string is made of: NUL, 'A', 'B' and U+00E9 (C3 A9).
StrChars == {<<0>>, <<65>>, <<66>>, <<195, 169>>}

RECURSIVE Concat(_)
Concat(ss) == IF ss = <<>> THEN <<>> ELSE Head(ss) \o Concat(Tail(ss))

Strings == {Concat(cs) : cs \in UNION {[1..n -> StrChars] : n \in 0..MaxStrLen}}

\* Payload bytes of a raw input: NUL, 'A', and bytes that are not UTF-8 on
\* their own (F0 90 80 is a truncated four-byte sequence).
RawBytes == {0, 65, 144, 240}

RawPayloads == UNION {[1..n -> RawBytes] : n \in 0..MaxStrLen}

FsIdle ==
    /\ fsStage = "start"
    /\ fsStr = <<>>
    /\ fsBytes = <<>>
    /\ fsRes = NoResult

GuidIdle ==
    /\ guidStage = "start"
    /\ guid = <<>>
    /\ guidText = <<>>
    /\ guidRes = NoResult

CodecIdle ==
    /\ stage = "build"
    /\ stream = <<>>
    /\ nprops = 0
    /\ wrapped = FALSE
    /\ file = <<>>
    /\ save = NoResult
    /\ out = <<>>
    /\ edits = 0

DefaultsIdle ==
    /\ defStage = "start"
    /\ defCall = "none"
    /\ defType = <<>>
    /\ defFlags = 0
    /\ defValue = <<>>
    /\ defBytes = <<>>
    /\ defRes = NoResult

LookupIdle ==
    /\ lookCall = "none"
    /\ lookTarget = <<>>
    /\ lookKey = <<>>
    /\ lookRes = <<>>

TypeIdle ==
    /\ tyStage = "start"
    /\ tyBytes = <<>>
    /\ tyRes = NoResult
    /\ tyElem = <<>>

FsInit ==
    /\ overflow_checks \in BOOLEAN
    /\ FsIdle
    /\ GuidIdle
    /\ CodecIdle
    /\ DefaultsIdle
    /\ LookupIdle
    /\ TypeIdle

\* writer.write_le(&fstr) for an FString holding s.
FsWrite(s) ==
    /\ fsStage = "start"
    /\ fsStr' = s
    /\ fsBytes' = WriteFString(s)
    /\ fsStage' = "written"
    /\ UNCHANGED <<overflow_checks, defVars, lookVars, tyVars, fsRes, guidVars, codecVars>>

\* A stream holding the u32 n and then a payload, handed to the reader.
FsFeed(n, payload) ==
    /\ fsStage = "start"
    /\ fsStr' = <<>>
    /\ fsBytes' = WriteU32(n) \o payload
    /\ fsStage' = "fed"
    /\ UNCHANGED <<overflow_checks, defVars, lookVars, tyVars, fsRes, guidVars, codecVars>>

\* reader.read_le::<FString>() on the stream.
FsRead ==
    /\ fsStage \in {"written", "fed"}
    /\ fsRes' = ReadFString(fsBytes, 0)
    /\ fsStage' = IF fsStage = "written" THEN "readback" ELSE "read"
    /\ UNCHANGED <<overflow_checks, defVars, lookVars, tyVars, fsStr, fsBytes, guidVars, codecVars>>

FsNext ==
    \/ \E s \in Strings : FsWrite(s)
    \/ \E n \in 0..(MaxStrLen + 1), payload \in RawPayloads : FsFeed(n, payload)
    \/ FsRead

SpecFString == FsInit /\ [][FsNext]_vars

(***************************************************************************)
(* Guid harness: a Guid is formatted and the text is parsed.               *)
(***************************************************************************)
\* The Guid of tests::test_guid_string.
TestGuid == <<1, 2, 3, 4, 5, 6, 7, 8, 9, 10, 11, 12, 13, 14, 15, 16>>

GuidByteSamples == {0, 9, 10, 127, 171, 255}

GuidInit ==
    /\ overflow_checks \in BOOLEAN
    /\ FsIdle
    /\ GuidIdle
    /\ CodecIdle
    /\ DefaultsIdle
    /\ LookupIdle
    /\ TypeIdle

\* Guid(bytes): the test Guid with one or two of its bytes replaced.
GuidNew(i, x, j, y) ==
    /\ guidStage = "start"
    /\ guid' = [TestGuid EXCEPT ![i] = x, ![j] = y]
    /\ guidStage' = "made"
    /\ UNCHANGED <<overflow_checks, defVars, lookVars, tyVars, fsVars, guidText, guidRes, codecVars>>

\* guid.to_string()
GuidFormat ==
    /\ guidStage = "made"
    /\ guidText' = GuidToString(guid)
    /\ guidStage' = "formatted"
    /\ UNCHANGED <<overflow_checks, defVars, lookVars, tyVars, fsVars, guid, guidRes, codecVars>>

\* Guid::from_str(text)
GuidParse ==
    /\ guidStage = "formatted"
    /\ guidRes' = GuidFromStr(guidText)
    /\ guidStage' = "parsed"
    /\ UNCHANGED <<overflow_checks, defVars, lookVars, tyVars, fsVars, guid, guidText, codecVars>>

\* What the user can leave in the text field that shows a Guid: the text
\* with one character replaced, with its first two characters replaced by
\* the two bytes of U+00E9, shortened, lengthened, or without its dashes.
TypedChars == {43, 45, 48, 70, 103}

TypedPositions == {1, 2, 9, 36}

TypedTexts(text) ==
    {[text EXCEPT ![i] = c] : i \in TypedPositions, c \in TypedChars}
        \cup {[text EXCEPT ![1] = 195, ![2] = 169], SubSeq(text, 1, Len(text) - 1),
              text \o <<48>>, RemoveDashes(text)}

\* typed_input on a Guid: value.to_string() is shown, and the changed text
\* goes through try_set_from_str, which keeps the old value on Err.
GuidInput ==
    /\ guidStage = "formatted"
    /\ \E text \in TypedTexts(guidText) : guidText' = text
    /\ guidRes' = GuidFromStr(guidText')
    /\ guid' = IF guidRes'.ok THEN guidRes'.val ELSE guid
    /\ guidStage' = "typed"
    /\ UNCHANGED <<overflow_checks, defVars, lookVars, tyVars, fsVars, codecVars>>

GuidNext ==
    \/ \E i \in 1..GuidLen, x \in GuidByteSamples, j \in {1, GuidLen} :
           \E y \in {TestGuid[j], 255} : GuidNew(i, x, j, y)
    \/ GuidFormat
    \/ GuidParse
    \/ GuidInput

SpecGuid == GuidInit /\ [][GuidNext]_vars

(***************************************************************************)
(* Save files.  A file is the bytes the game wrote: a header, the          *)
(* SaveGameData prologue, a stream of properties and the four footer       *)
(* bytes.  The stream is put together from encoded properties, and may be  *)
(* nested once inside a struct or a custom struct.                         *)
(***************************************************************************)
MaxProps == 2

\* A u32 / an FString / a type without inner types, as found in a file.
FileU32(n) == <<n % 256, (n \div 256) % 256, 0, 0>>

FileString(s) == FileU32(Len(s) + 1) \o s \o <<0>>

FileTag(value) == FileU32(1) \o FileString(value)

FileType(name, tags) == FileString(name) \o Concat(tags) \o FileU32(0)

\* name, type, data_size, flags, value
FileProperty(name, type, data_size, flags, value) ==
    FileString(name) \o type \o FileU32(data_size) \o <<flags>> \o value

FileNone == FileString(NONE_NAME)

FileHeader ==
    GVAS \o <<3, 0, 0, 0>> \o <<10, 2, 0, 0>> \o <<244, 3, 0, 0>>
         \o <<5, 0>> \o <<4, 0>> \o <<255, 255>> \o <<0, 0, 0, 0>> \o FileString(Lit("++UE5"))
         \o <<3, 0, 0, 0>> \o FileU32(1) \o TestGuid \o <<254, 255, 255, 255>>
         \o FileString(Lit("NoceSaveGame")) \o <<0>>

FileFooter == <<0, 0, 0, 0>>

Fragments ==
    [IntNeg |-> FileProperty(Lit("I"), FileType(TN.Int, <<>>), 4, 0, <<254, 255, 255, 255>>),
     IntSlack |-> FileProperty(Lit("J"), FileType(TN.Int, <<>>), 8, 0, <<1, 0, 0, 0>>),
     BoolAbsent |-> FileProperty(Lit("B"), FileType(TN.Bool, <<>>), 0, 16, <<>>),
     BoolTwo |-> FileProperty(Lit("C"), FileType(TN.Bool, <<>>), 1, 0, <<2>>),
     StrLossy |-> FileProperty(Lit("S"), FileType(TN.Str, <<>>), 8, 0,
                               <<4, 0, 0, 0, 240, 144, 128, 0>>),
     Unknown |-> FileProperty(Lit("U"), FileType(Lit("FooProperty"), <<>>), 3, 0, <<1, 2, 3>>),
     Text |-> FileProperty(Lit("T"), FileType(TN.Text, <<>>), 15, 0,
                           <<33, 1, 0, 64>> \o <<255>> \o FileU32(1) \o FileString(Lit("a"))),
     Vector |-> FileProperty(Lit("V"),
                             FileType(TN.Struct, <<FileTag(Lit("Vector")),
                                                   FileTag(Lit("/Script/CoreUObject"))>>),
                             24, 8, [i \in 1..24 |-> i]),
     ArrayOfOne |-> FileProperty(Lit("A"), FileType(TN.Array, <<FileTag(Lit("FooProperty"))>>),
                                 7, 0, FileU32(1) \o <<9, 8, 7>>),
     MapOfNames |-> FileProperty(Lit("M"),
                                 FileType(TN.Map, <<FileTag(TN.Name)>>) \o FileType(TN.Int, <<>>),
                                 38, 0,
                                 FileU32(0) \o FileU32(3)
                                     \o FileString(Lit("S")) \o FileU32(1)
                                     \o FileString(Lit("I")) \o FileU32(2)
                                     \o FileString(Lit("I")) \o FileU32(3)),
     MapOfInts |-> FileProperty(Lit("T"),
                                FileType(TN.Map, <<FileTag(TN.Int)>>) \o FileType(TN.Str, <<>>),
                                38, 0,
                                FileU32(0) \o FileU32(3)
                                    \o <<255, 255, 255, 255>> \o FileString(Lit("a"))
                                    \o FileU32(5) \o FileString(Lit("v"))
                                    \o FileU32(5) \o FileString(Lit("w"))),
     MapByteBool |-> FileProperty(Lit("U"),
                                  FileType(TN.Map, <<FileTag(TN.Byte)>>) \o FileType(TN.Bool, <<>>),
                                  9, 0, FileU32(0) \o FileU32(1) \o <<5>>),
     MapIntStr |-> FileProperty(Lit("M"),
                                FileType(TN.Map, <<FileTag(TN.Int)>>) \o FileType(TN.Str, <<>>),
                                18, 0,
                                FileU32(0) \o FileU32(1) \o <<5, 0, 0, 0>>
                                    \o FileString(Lit("v"))),
     Byte |-> FileProperty(Lit("Y"), FileType(TN.Byte, <<>>), 1, 0, <<7>>),
     Float |-> FileProperty(Lit("F"), FileType(TN.Float, <<>>), 4, 0, <<0, 0, 128, 63>>),
     Double |-> FileProperty(Lit("D"), FileType(TN.Double, <<>>), 8, 0,
                             <<0, 0, 0, 0, 0, 0, 240, 63>>),
     Str |-> FileProperty(Lit("S"), FileType(TN.Str, <<>>), 7, 0, FileString(Lit("hi"))),
     Name |-> FileProperty(Lit("N"), FileType(TN.Name, <<>>), 6, 0, FileString(Lit("n"))),
     Enum |-> FileProperty(Lit("E"),
                           FileType(TN.Enum, <<FileTag(Lit("E"))>>) \o FileType(TN.Byte, <<>>),
                           8, 0, FileString(Lit("E.A"))),
     TextBase |-> FileProperty(Lit("X"), FileType(TN.Text, <<>>), 22, 0,
                               <<0, 0, 0, 0>> \o <<0>> \o FileString(<<>>)
                                   \o FileString(Lit("k")) \o FileString(Lit("s"))),
     ArrayOfInts |-> FileProperty(Lit("L"), FileType(TN.Array, <<FileTag(TN.Int)>>), 12, 0,
                                  FileU32(2) \o <<1, 0, 0, 0>> \o <<2, 0, 0, 0>>),
     Tags |-> FileProperty(Lit("G"),
                           FileType(TN.Struct, <<FileTag(Lit("GameplayTagContainer")),
                                                 FileTag(Lit("/Script/GameplayTags"))>>),
                           10, 8, FileU32(1) \o FileString(Lit("t"))),
     Bytes0 |-> FileProperty(Lit("Z"), FileType(TN.Array, <<FileTag(TN.Byte)>>), 4, 0,
                             FileU32(0)),
     Bytes3 |-> FileProperty(Lit("R"), FileType(TN.Array, <<FileTag(TN.Byte)>>), 7, 0,
                             FileU32(3) \o <<9, 8, 7>>),
     IntTight |-> FileProperty(Lit("K"), FileType(TN.Int, <<>>), 2, 0, <<1, 0, 0, 0>>),
     ArrayTight |-> FileProperty(Lit("O"), FileType(TN.Array, <<FileTag(TN.Int)>>), 2, 0,
                                 FileU32(1) \o <<1, 0, 0, 0>>),
     MapTight |-> FileProperty(Lit("P"),
                               FileType(TN.Map, <<FileTag(TN.Int)>>) \o FileType(TN.Str, <<>>),
                               4, 0, FileU32(0) \o FileU32(0)),
     ArrayOfMaps |-> FileProperty(Lit("Q"),
                                  FileType(TN.Array, <<FileTag(TN.Map), FileTag(TN.Int)>>)
                                      \o FileType(TN.Str, <<>>),
                                  22, 0,
                                  FileU32(1) \o FileU32(0) \o FileU32(1) \o <<5, 0, 0, 0>>
                                      \o FileString(Lit("v"))),
     ByteEnum |-> FileProperty(Lit("Y"), FileType(TN.Byte, <<FileTag(Lit("E"))>>), 8, 0,
                               FileString(Lit("E.A"))),
     ByteTagBad |-> FileProperty(Lit("Y"), FileType(TN.Byte, <<FileTag(Lit("E"))>>), 2, 0,
                                 <<9, 8>>),
     ByteTagZero |-> FileProperty(Lit("Y"), FileType(TN.Byte, <<FileTag(Lit("E"))>>), 5, 0,
                                  <<0, 0, 0, 0, 0>>),
     ByteNoTag |-> FileProperty(Lit("Y"), FileType(TN.Byte, <<>>), 2, 0, <<9, 8>>),
     None |-> FileNone,
     Cut |-> <<2, 0, 0, 0, 65>>]

\* The properties a stream is put together from.
FragmentNames ==
    {"IntNeg", "IntSlack", "BoolAbsent", "BoolTwo", "Unknown", "Text", "Vector", "None", "Cut"}

StructType == FileType(TN.Struct, <<FileTag(Lit("Inner"))>>)

\* The properties `inner` as the value of a StructProperty named W, ended by
\* "None" (terminated) or by its size alone.
FileStruct(inner, terminated) ==
    LET value == inner \o (IF terminated THEN FileNone ELSE <<>>) IN
    FileProperty(Lit("W"), StructType, Len(value), 0, value)

\* A custom struct: Class names the class, Data is a byte array holding a
\* flags byte, the properties `inner` and the class's footer bytes.
FileCustomStruct(inner, class, footer) ==
    LET payload == <<0>> \o inner \o footer
        data == FileU32(Len(payload)) \o payload
        value == FileProperty(CLASS_NAME, FileType(TN.Object, <<>>), Len(class) + 5, 0,
                              FileString(class))
                     \o FileProperty(DATA_NAME,
                                     FileType(TN.Array, <<FileTag(TN.Byte)>>),
                                     Len(data), 0, data)
                     \o FileNone
    IN FileProperty(Lit("W"), StructType, Len(value), 0, value)

\* The footer bytes the game writes after the nested stream of class i.
FileFooterOf(i) == [j \in 1..CUSTOM_STRUCT_CLASSES[i].footer_size |-> 16 * j]

FileOf(properties) == FileHeader \o properties \o FileFooter

CodecInit ==
    /\ overflow_checks \in BOOLEAN
    /\ FsIdle
    /\ GuidIdle
    /\ CodecIdle
    /\ DefaultsIdle
    /\ LookupIdle
    /\ TypeIdle

\* One more property at the end of the stream.
AppendProperty(f) ==
    /\ stage = "build"
    /\ nprops < MaxProps
    /\ stream' = stream \o Fragments[f]
    /\ nprops' = nprops + 1
    /\ UNCHANGED <<overflow_checks, defVars, lookVars, tyVars, fsVars, guidVars, stage, wrapped, file, save, out, edits>>

\* The stream so far becomes the children of one StructProperty.
WrapStruct(terminated) ==
    /\ stage = "build"
    /\ ~wrapped
    /\ stream' = FileStruct(stream, terminated)
    /\ wrapped' = TRUE
    /\ UNCHANGED <<overflow_checks, defVars, lookVars, tyVars, fsVars, guidVars, stage, nprops, file, save, out, edits>>

\* The stream so far becomes the nested stream of one custom struct.
WrapCustomStruct(i, footer) ==
    /\ stage = "build"
    /\ ~wrapped
    /\ stream' = FileCustomStruct(stream, CUSTOM_STRUCT_CLASSES[i].class, footer)
    /\ wrapped' = TRUE
    /\ UNCHANGED <<overflow_checks, defVars, lookVars, tyVars, fsVars, guidVars, stage, nprops, file, save, out, edits>>

\* AppState::load_save: file.read_le() on the file holding the stream.
LoadSave ==
    /\ stage = "build"
    /\ file' = FileOf(stream)
    /\ save' = ReadSaveGame(FileOf(stream))
    /\ stage' = IF save'.ok THEN "loaded" ELSE "failed"
    /\ UNCHANGED <<overflow_checks, defVars, lookVars, tyVars, fsVars, guidVars, stream, nprops, wrapped, out, edits>>

\* AppState::save_to: file.write_le(save)
SaveTo ==
    /\ stage = "loaded"
    /\ out' = WriteSaveGame(save.val)
    /\ stage' = "saved"
    /\ UNCHANGED <<overflow_checks, defVars, lookVars, tyVars, fsVars, guidVars, stream, nprops, wrapped, file, save, edits>>

Next ==
    \/ \E f \in FragmentNames : AppendProperty(f)
    \/ \E terminated \in BOOLEAN : WrapStruct(terminated)
    \/ \E i \in {1, 9} : WrapCustomStruct(i, FileFooterOf(i))
    \/ LoadSave
    \/ SaveTo

Spec == CodecInit /\ [][Next]_vars

\* Save files holding malformed properties: a data_size smaller than the
\* value, an array of maps, a custom struct whose Data payload is shorter
\* than 1 + its footer.
MalformedNames ==
    {"IntNeg", "None", "Cut", "IntTight", "ArrayTight", "MapTight", "ArrayOfMaps"}

MalformedNext ==
    \/ \E f \in MalformedNames : AppendProperty(f)
    \/ \E terminated \in BOOLEAN : WrapStruct(terminated)
    \/ \E footer \in {FileFooterOf(1), <<1, 2, 3>>, <<>>} : WrapCustomStruct(1, footer)
    \/ LoadSave
    \/ SaveTo

SpecMalformed == CodecInit /\ [][MalformedNext]_vars

(***************************************************************************)
(* The editor (app.rs): the operations of the property tree view on the    *)
(* loaded save, and the values they create (save.rs).                      *)
(***************************************************************************)
MaxEdits == 1

SCALAR_TYPE_NAMES ==
    <<TN.Bool, TN.Byte, TN.Int, TN.Float, TN.Double, TN.Str, TN.Object, TN.Name>>

\* The bytes of 0u64, 0.0f64 and 0.0f32.
ZeroBytes(n) == [i \in 1..n |-> 0]

\* TextProperty { flags: TextFlags::empty(), data: TextData::None { values: Vec::new() } }
EmptyText ==
    [k |-> "TextProperty", flags |-> ZeroBytes(4), data |-> [tag |-> "None", values |-> <<>>]]

\* PropertyValue::default_for_type
default_for_type(name) ==
    IF name = TN.Bool THEN [k |-> "BoolProperty", some |-> FALSE, b |-> FALSE]
    ELSE IF name = TN.Byte THEN [k |-> "ByteProperty", n |-> 0]
    ELSE IF name = TN.Int THEN [k |-> "IntProperty", n |-> 0]
    ELSE IF name = TN.Float THEN [k |-> "FloatProperty", bits |-> ZeroBytes(4)]
    ELSE IF name = TN.Double THEN [k |-> "DoubleProperty", bits |-> ZeroBytes(8)]
    ELSE IF name = TN.Str \/ name = TN.Object \/ name = TN.Name \/ name = TN.Enum
    THEN StringValue(StringVariantOf(name), <<>>)
    ELSE IF name = TN.Text THEN EmptyText
    ELSE IF name = TN.Struct THEN [k |-> "StructProperty", props |-> <<>>]
    ELSE IF name = TN.Array THEN [k |-> "ArrayProperty", values |-> <<>>]
    ELSE IF name = TN.Map THEN [k |-> "MapProperty", removed_count |-> 0, values |-> <<>>]
    ELSE UnknownProperty(<<>>)

\* Property::new_none
new_none == [name |-> NONE_NAME, body |-> <<>>]

\* make_default_uobject: every field of the layout is zero.
make_default_uobject(name) ==
    [k |-> "CoreUObjectStructProperty", name |-> name,
     fields |-> [i \in 1..Len(CORE_UOBJECTS[UObjectIndex(name)].fields) |->
                    ZeroBytes(CORE_UOBJECTS[UObjectIndex(name)].fields[i])]]

\* PropertyType::make_default_value
make_default_value(ty, flags) ==
    IF ty.name = TN.Bool THEN [k |-> "BoolProperty", some |-> TRUE, b |-> FALSE]
    ELSE IF ty.name = TN.Struct
    THEN IF describe(ty) = GAMEPLAY_TAG_CONTAINER_TYPE
         THEN [k |-> "ArrayProperty", values |-> <<>>]
         ELSE IF IsPrefix(CORE_UOBJECT_TYPE_PREFIX, describe(ty))
         THEN (IF UObjectIndex(ty.tags[1].value) > 0
               THEN make_default_uobject(ty.tags[1].value)
               ELSE UnknownProperty(<<>>))
         ELSE IF flags # 0 THEN UnknownProperty(<<>>)
         ELSE [k |-> "StructProperty", props |-> <<new_none>>]
    ELSE default_for_type(ty.name)

\* PropertyValue::type_name
type_name(value) ==
    IF value.k = "StrProperty" THEN TN.Str
    ELSE IF value.k = "BoolProperty" THEN TN.Bool
    ELSE IF value.k = "ByteProperty" THEN TN.Byte
    ELSE IF value.k = "IntProperty" THEN TN.Int
    ELSE IF value.k = "FloatProperty" THEN TN.Float
    ELSE IF value.k = "DoubleProperty" THEN TN.Double
    ELSE IF value.k = "TextProperty" THEN TN.Text
    ELSE IF value.k = "EnumProperty" THEN TN.Enum
    ELSE IF value.k = "NameProperty" THEN TN.Name
    ELSE IF value.k = "ObjectProperty" THEN TN.Object
    ELSE IF value.k = "StructProperty" \/ value.k = "CoreUObjectStructProperty" THEN TN.Struct
    ELSE IF value.k = "ArrayProperty" \/ value.k = "CustomStructProperty" THEN TN.Array
    ELSE IF value.k = "MapProperty" THEN TN.Map
    ELSE <<>>

\* PropertyType::new_scalar
PropertyType_new_scalar(name) == [name |-> name, tags |-> <<>>, inner_types |-> <<>>]

\* PropertyBody::new_scalar; a body that was never read has no read_size,
\* at or upto: they are 0.
PropertyBody_new_scalar(value) ==
    [property_type |-> PropertyType_new_scalar(type_name(value)), flags |-> 0,
     value |-> value, read_size |-> 0, at |-> 0, upto |-> 0]

\* Property::new_scalar
Property_new_scalar(name, value) ==
    [name |-> name, body |-> <<PropertyBody_new_scalar(value)>>]

\* format!("{index}")
RECURSIVE Decimal(_)
Decimal(n) == IF n < 10 THEN <<48 + n>> ELSE Decimal(n \div 10) \o <<48 + (n % 10)>>

\* Vec::insert(index, e) and Vec::remove(index), index counted from 0.
InsertAt(s, index, e) == SubSeq(s, 1, index) \o <<e>> \o SubSeq(s, index + 1, Len(s))

RemoveAt(s, index) == SubSeq(s, 1, index) \o SubSeq(s, index + 2, Len(s))

\* What the user types into a text_input / typed_input.
InputStrings == {Lit("ab")}

InputNumber == 7

InputBytes(n) == [i \in 1..n |-> IF i = n THEN 64 ELSE 0]

\* The FString fields of a TextData variant.
TextStringFields(tag) ==
    IF tag = "Base" THEN {"namespace", "key", "source_string"}
    ELSE IF tag = "AsDateTime" THEN {"time_zone", "culture_name"}
    ELSE IF tag = "StringTableEntry" THEN {"table", "key"}
    ELSE {}

\* One operation of kind `kind` somewhere in a tree.  EditProps is
\* show_properties, EditProperty is show_property and EditValue is
\* show_property_value (flags is -1 for None); each gives the set of results
\* the operation can have, and EditValue gives them as <<value, flags>>.
RECURSIVE EditProps(_, _), EditProperty(_, _), EditValue(_, _, _, _)
EditProps(props, kind) ==
    (IF kind = "insert"
     THEN {InsertAt(props, index,
                    Property_new_scalar(Lit("Field") \o Decimal(index),
                                        default_for_type(SCALAR_TYPE_NAMES[t])))
           : index \in {i \in 0..Len(props) : props # <<>>},
             t \in 1..Len(SCALAR_TYPE_NAMES)}
     ELSE IF kind = "delete"
     THEN {RemoveAt(props, i - 1) : i \in {j \in 1..Len(props) : props[j].body # <<>>}}
     ELSE {})
    \cup UNION {{[props EXCEPT ![i] = p] : p \in EditProperty(props[i], kind)}
                : i \in 1..Len(props)}

EditProperty(prop, kind) ==
    (IF kind = "input" THEN {[prop EXCEPT !.name = s] : s \in InputStrings} ELSE {})
    \cup (IF prop.body = <<>> THEN {}
          ELSE (IF kind = "input"
                THEN {[prop EXCEPT !.body = <<[prop.body[1] EXCEPT !.flags = InputNumber]>>]}
                ELSE {})
               \cup {[prop EXCEPT !.body = <<[prop.body[1] EXCEPT !.value = r[1],
                                                                 !.flags = r[2]]>>]
                     : r \in EditValue(prop.body[1].value, prop.body[1].flags,
                                       prop.body[1].property_type, kind)})

EditValue(value, flags, ty, kind) ==
    IF value.k \in StringVariants
    THEN (IF kind = "input" THEN {<<[value EXCEPT !.s = s], flags>> : s \in InputStrings}
          ELSE {})
    ELSE IF value.k = "BoolProperty"
    THEN (IF kind # "toggle" THEN {}
          ELSE IF value.some THEN {<<[value EXCEPT !.b = ~value.b], flags>>}
          ELSE IF flags < 0 THEN {}
          ELSE {<<value, IF (flags \div 16) % 2 = 1 THEN flags - 16 ELSE flags + 16>>})
    ELSE IF value.k = "ByteProperty" \/ value.k = "IntProperty"
    THEN (IF kind = "input" THEN {<<[value EXCEPT !.n = InputNumber], flags>>} ELSE {})
    ELSE IF value.k = "FloatProperty" \/ value.k = "DoubleProperty"
    THEN (IF kind = "input"
          THEN {<<[value EXCEPT !.bits = InputBytes(Len(value.bits))], flags>>}
          ELSE {})
    ELSE IF value.k = "TextProperty"
    THEN (IF kind # "input" THEN {}
          ELSE {<<[value EXCEPT !.flags = InputBytes(4)], flags>>}
               \cup (IF value.data.tag = "None"
                     THEN {<<[value EXCEPT !.data.values[i] = s], flags>>
                           : i \in 1..Len(value.data.values), s \in InputStrings}
                     ELSE {<<[value EXCEPT !.data[f] = s], flags>>
                           : f \in TextStringFields(value.data.tag), s \in InputStrings}))
    ELSE IF value.k = "StructProperty"
    THEN {<<[value EXCEPT !.props = p], flags>> : p \in EditProps(value.props, kind)}
    ELSE IF value.k = "CustomStructProperty"
    THEN (IF kind = "input" THEN {<<[value EXCEPT !.flags = InputNumber], flags>>} ELSE {})
         \cup {<<[value EXCEPT !.props = p], flags>> : p \in EditProps(value.props, kind)}
    ELSE IF value.k = "CoreUObjectStructProperty"
    THEN (IF kind = "input"
          THEN {<<[value EXCEPT !.fields[i] = InputBytes(Len(value.fields[i]))], flags>>
                : i \in 1..Len(value.fields)}
          ELSE {})
    ELSE IF value.k = "ArrayProperty"
    THEN (IF Len(value.values) = 1 /\ value.values[1].k = "UnknownProperty" THEN {}
          ELSE (IF kind = "array_insert"
                THEN {<<[value EXCEPT !.values =
                            InsertAt(value.values, index,
                                     make_default_value(element_type(ty),
                                                        IF flags < 0 THEN 0 ELSE flags))],
                        flags>>
                      : index \in 0..Len(value.values)}
                ELSE IF kind = "array_delete"
                THEN {<<[value EXCEPT !.values = RemoveAt(value.values, i - 1)], flags>>
                      : i \in 1..Len(value.values)}
                ELSE {})
               \cup UNION {{<<[value EXCEPT !.values[i] = r[1]], flags>>
                            : r \in EditValue(value.values[i], -1, element_type(ty), kind)}
                           : i \in 1..Len(value.values)})
    ELSE IF value.k = "MapProperty"
    THEN (IF kind = "input" THEN {<<[value EXCEPT !.removed_count = InputNumber], flags>>}
          ELSE {})
         \cup (IF ty.inner_types = <<>> THEN {}
               ELSE (IF kind = "map_insert"
                     THEN {<<[value EXCEPT !.values =
                                 InsertAt(value.values, index,
                                          <<make_default_value(element_type(ty),
                                                               IF flags < 0 THEN 0 ELSE flags),
                                            make_default_value(
                                                ty.inner_types[Len(ty.inner_types)],
                                                IF flags < 0 THEN 0 ELSE flags)>>)],
                             flags>>
                           : index \in 0..Len(value.values)}
                     ELSE IF kind = "map_delete"
                     THEN {<<[value EXCEPT !.values = RemoveAt(value.values, i - 1)], flags>>
                           : i \in 1..Len(value.values)}
                     ELSE {})
                    \cup UNION {{<<[value EXCEPT !.values[i][1] = r[1]], flags>>
                                 : r \in EditValue(value.values[i][1], -1,
                                                   element_type(ty), kind)}
                                \cup {<<[value EXCEPT !.values[i][2] = r[1]], flags>>
                                      : r \in EditValue(value.values[i][2], -1,
                                                        ty.inner_types[Len(ty.inner_types)],
                                                        kind)}
                                : i \in 1..Len(value.values)})
    ELSE {}

\* The save files the editor is opened on.
Samples ==
    <<Fragments.MapIntStr \o Fragments.ArrayOfInts \o Fragments.TextBase,
      FileCustomStruct(Fragments.Text \o Fragments.BoolAbsent,
                       CUSTOM_STRUCT_CLASSES[1].class, FileFooterOf(1)),
      FileStruct(Fragments.IntNeg \o Fragments.Double \o Fragments.Enum, TRUE)
          \o Fragments.Vector \o Fragments.Unknown,
      Fragments.BoolTwo \o Fragments.Byte \o Fragments.Float \o Fragments.Str
          \o Fragments.Name \o Fragments.Tags,
      Fragments.Bytes0 \o Fragments.Bytes3>>

\* AppState::load_save on one of the sample files.
OpenSample(i) ==
    /\ stage = "build"
    /\ stream = <<>>
    /\ stream' = Samples[i]
    /\ file' = FileOf(Samples[i])
    /\ save' = ReadSaveGame(FileOf(Samples[i]))
    /\ stage' = IF save'.ok THEN "loaded" ELSE "failed"
    /\ UNCHANGED <<overflow_checks, defVars, lookVars, tyVars, fsVars, guidVars, nprops, wrapped, out, edits>>

\* The tree view shows the loaded save (show_save_game).
Editable == stage = "loaded" /\ edits < MaxEdits

\* The property list of the save after one operation of the tree view.
Edited(props) ==
    /\ save' = [save EXCEPT !.val.save_data.properties = props]
    /\ edits' = edits + 1
    /\ UNCHANGED <<overflow_checks, defVars, lookVars, tyVars, fsVars, guidVars, stage, stream, nprops, wrapped, file, out>>

\* show_properties: Insert above / Insert below with a type of the type menu
InsertProperty ==
    /\ Editable
    /\ \E props \in EditProps(save.val.save_data.properties, "insert") : Edited(props)

\* show_properties: Delete
DeleteProperty ==
    /\ Editable
    /\ \E props \in EditProps(save.val.save_data.properties, "delete") : Edited(props)

\* show_property_value, ArrayProperty: Insert above / Insert below / Insert
InsertArrayValue ==
    /\ Editable
    /\ \E props \in EditProps(save.val.save_data.properties, "array_insert") : Edited(props)

\* show_property_value, ArrayProperty: Delete
DeleteArrayValue ==
    /\ Editable
    /\ \E props \in EditProps(save.val.save_data.properties, "array_delete") : Edited(props)

\* show_property_value, MapProperty: Insert above / Insert below / Insert
InsertMapEntry ==
    /\ Editable
    /\ \E props \in EditProps(save.val.save_data.properties, "map_insert") : Edited(props)

\* show_property_value, MapProperty: Delete
DeleteMapEntry ==
    /\ Editable
    /\ \E props \in EditProps(save.val.save_data.properties, "map_delete") : Edited(props)

\* show_property_value, BoolProperty: the checkbox
ToggleBool ==
    /\ Editable
    /\ \E props \in EditProps(save.val.save_data.properties, "toggle") : Edited(props)

\* text_input / typed_input on a name, a flags byte or a value
InputValue ==
    /\ Editable
    /\ \E props \in EditProps(save.val.save_data.properties, "input") : Edited(props)

EditNext ==
    \/ \E i \in 1..Len(Samples) : OpenSample(i)
    \/ InsertProperty
    \/ DeleteProperty
    \/ InsertArrayValue
    \/ DeleteArrayValue
    \/ InsertMapEntry
    \/ DeleteMapEntry
    \/ ToggleBool
    \/ InputValue
    \/ SaveTo

SpecEdit == CodecInit /\ [][EditNext]_vars

(***************************************************************************)
(* The default constructors on their own: one of the two constructors is   *)
(* called, its value is written as the value of a body with the same type  *)
(* and flags (PropertyBody's BinWrite), and the bytes are read back        *)
(* (PropertyBody's BinRead).                                               *)
(***************************************************************************)
Tag(value) == [kind |-> 1, value |-> value]

StructTypeOf(name, package) ==
    [name |-> TN.Struct, tags |-> <<Tag(Lit(name)), Tag(Lit(package))>>, inner_types |-> <<>>]

\* The type names default_for_type is called with: the names the codec
\* knows and one it does not.
DefaultNames ==
    {TN.Bool, TN.Byte, TN.Int, TN.Float, TN.Double, TN.Str, TN.Object, TN.Name, TN.Enum,
     TN.Text, TN.Struct, TN.Array, TN.Map, Lit("SetProperty")}

\* The types make_default_value is called on, each one a type
\* PropertyType's BinRead can return: tagless types, struct types of every
\* description the function tells apart, and enum and container types.
DefaultTypes ==
    {PropertyType_new_scalar(name) : name \in DefaultNames \ {TN.Enum, TN.Map}}
    \cup {[name |-> TN.Enum, tags |-> <<Tag(Lit("ENoceMode")), Tag(Lit("/Script/GameNoce"))>>,
           inner_types |-> <<PropertyType_new_scalar(TN.Byte)>>]}
    \cup {StructTypeOf("Inner", "/Script/GameNoce"),
          StructTypeOf("GameplayTagContainer", "/Script/GameplayTags"),
          StructTypeOf("Box", "/Script/CoreUObject")}
    \cup {StructTypeOf("Vector", "/Script/CoreUObject"),
          StructTypeOf("DateTime", "/Script/CoreUObject"),
          StructTypeOf("Timespan", "/Script/CoreUObject"),
          StructTypeOf("Quat", "/Script/CoreUObject"),
          StructTypeOf("LinearColor", "/Script/CoreUObject")}
    \cup {[name |-> TN.Array, tags |-> <<Tag(TN.Int)>>, inner_types |-> <<>>],
          [name |-> TN.Array, tags |-> <<Tag(TN.Byte)>>, inner_types |-> <<>>],
          [name |-> TN.Map, tags |-> <<Tag(TN.Int)>>,
           inner_types |-> <<PropertyType_new_scalar(TN.Str)>>]}

DefaultFlags == {0, 1, 8}

DefaultForType ==
    /\ defStage = "start"
    /\ \E name \in DefaultNames :
          /\ defType' = PropertyType_new_scalar(name)
          /\ defValue' = default_for_type(name)
    /\ defCall' = "default_for_type"
    /\ defFlags' = 0
    /\ defStage' = "made"
    /\ UNCHANGED <<overflow_checks, lookVars, tyVars, fsVars, guidVars, codecVars, defBytes, defRes>>

MakeDefaultValue ==
    /\ defStage = "start"
    /\ \E ty \in DefaultTypes : \E flags \in DefaultFlags :
          /\ defType' = ty
          /\ defFlags' = flags
          /\ defValue' = make_default_value(ty, flags)
    /\ defCall' = "make_default_value"
    /\ defStage' = "made"
    /\ UNCHANGED <<overflow_checks, lookVars, tyVars, fsVars, guidVars, codecVars, defBytes, defRes>>

WriteDefault ==
    /\ defStage = "made"
    /\ defBytes' = WriteBody([property_type |-> defType, flags |-> defFlags, value |-> defValue,
                              read_size |-> 0, at |-> 0, upto |-> 0])
    /\ defStage' = "written"
    /\ UNCHANGED <<overflow_checks, lookVars, tyVars, fsVars, guidVars, codecVars,
                   defCall, defType, defFlags, defValue, defRes>>

ReadDefault ==
    /\ defStage = "written"
    /\ defRes' = ReadBody(defBytes, 0)
    /\ defStage' = "read"
    /\ UNCHANGED <<overflow_checks, lookVars, tyVars, fsVars, guidVars, codecVars,
                   defCall, defType, defFlags, defValue, defBytes>>

DefaultsNext ==
    \/ DefaultForType
    \/ MakeDefaultValue
    \/ WriteDefault
    \/ ReadDefault

SpecDefaults == CodecInit /\ [][DefaultsNext]_vars

(***************************************************************************)
(* Type descriptors on their own: the bytes of a descriptor are read       *)
(* (PropertyType's BinRead), and the element type of the descriptor read   *)
(* is taken (PropertyType::element_type).                                  *)
(***************************************************************************)
\* The names and tag lists of the descriptors read, and what comes after
\* the tag list: three descriptors without tags, or nothing.
TypeNameSamples == {TN.Enum, TN.Map, TN.Array, TN.Struct, TN.Int, Lit("SetProperty")}

TypeTagSamples ==
    {<<>>, <<TN.Enum>>, <<TN.Map>>, <<TN.Int>>, <<TN.Map, TN.Enum>>, <<TN.Map, TN.Int>>,
     <<TN.Enum, TN.Map>>,
     <<Lit("GameplayTagContainer"), Lit("/Script/GameplayTags")>>}

TypeTailSamples ==
    {<<>>, FileType(TN.Byte, <<>>) \o FileType(TN.Str, <<>>) \o FileType(TN.Int, <<>>)}

TypeFeed ==
    /\ tyStage = "start"
    /\ \E name \in TypeNameSamples : \E tags \in TypeTagSamples : \E tail \in TypeTailSamples :
          tyBytes' = FileType(name, [i \in 1..Len(tags) |-> FileTag(tags[i])]) \o tail
    /\ tyStage' = "fed"
    /\ UNCHANGED <<overflow_checks, defVars, lookVars, fsVars, guidVars, codecVars, tyRes, tyElem>>

TypeRead ==
    /\ tyStage = "fed"
    /\ tyRes' = ReadType(tyBytes, 0)
    /\ tyStage' = "read"
    /\ UNCHANGED <<overflow_checks, defVars, lookVars, fsVars, guidVars, codecVars, tyBytes, tyElem>>

ElementType ==
    /\ tyStage = "read"
    /\ tyRes.ok
    /\ tyElem' = element_type(tyRes.val)
    /\ tyStage' = "projected"
    /\ UNCHANGED <<overflow_checks, defVars, lookVars, fsVars, guidVars, codecVars, tyBytes, tyRes>>

TypeNext ==
    \/ TypeFeed
    \/ TypeRead
    \/ ElementType

SpecType == CodecInit /\ [][TypeNext]_vars

(***************************************************************************)
(* Claims about the FString codec (checked under SpecFString).             *)
(***************************************************************************)
FedSize == fsBytes[1] + 256 * fsBytes[2] + 65536 * fsBytes[3] + 16777216 * fsBytes[4]

NoNul(s) == \A i \in 1..Len(s) : s[i] # 0

\* C7: reading an FString reads u32 n; with n = 0 the result is the empty
\* string and only the four length bytes are consumed; with n > 0 a
\* successful read consumed exactly n payload bytes, the last one NUL, and
\* the read returns an error when the NUL-terminated payload length differs
\* from the declared length.
C7_FStringReadContract ==
    fsStage = "read" =>
        /\ FedSize = 0 => (fsRes.ok /\ fsRes.val = <<>> /\ fsRes.pos = 4)
        /\ (FedSize > 0 /\ fsRes.ok) => (fsRes.pos = 4 + FedSize /\ fsBytes[fsRes.pos] = 0)
        /\ (FedSize > 0 /\ FindNul(fsBytes, 4) >= 0 /\ FindNul(fsBytes, 4) - 4 # FedSize - 1)
               => (~fsRes.ok /\ fsRes.err = "bad")

\* C8: the empty string is encoded as u32 0 and nothing else (byte_size 4), a
\* string of len > 0 bytes as u32 (len + 1), the bytes, and one NUL
\* (byte_size len + 5); byte_size() is the number of bytes written.
C8_FStringEncodedForm ==
    fsStage = "written" =>
        /\ fsStr = <<>> => (fsBytes = <<0, 0, 0, 0>> /\ FStringByteSize(fsStr) = 4)
        /\ fsStr # <<>> =>
               /\ fsBytes = <<Len(fsStr) + 1, 0, 0, 0>> \o fsStr \o <<0>>
               /\ FStringByteSize(fsStr) = Len(fsStr) + 5
        /\ FStringByteSize(fsStr) = Len(fsBytes)

\* C9: for every string s without a NUL (the empty string included), reading
\* the bytes written for s succeeds, consumes all of them and yields s.
C9_StringParseLaw ==
    (fsStage = "readback" /\ NoNul(fsStr)) =>
        /\ fsRes.ok
        /\ fsRes.pos = Len(fsBytes)
        /\ fsRes.val = fsStr

C9_Witness ==
    /\ fsStage = "readback"
    /\ fsStr = <<65, 195, 169>>
    /\ fsRes.ok
    /\ fsRes.pos = 8

(***************************************************************************)
(* Claims about the Guid text form (checked under SpecGuid).               *)
(***************************************************************************)
LowerHexDigits == <<48, 49, 50, 51, 52, 53, 54, 55, 56, 57, 97, 98, 99, 100, 101, 102>>

\* Index in the 8-4-4-4-12 text of the first digit of byte k (1..16).
GuidDigitIndex(k) ==
    2 * k - 1 + (IF k > 4 THEN 1 ELSE 0) + (IF k > 6 THEN 1 ELSE 0)
              + (IF k > 8 THEN 1 ELSE 0) + (IF k > 10 THEN 1 ELSE 0)

\* C10: formatting a 16-byte Guid gives 32 lowercase hexadecimal digits
\* grouped 8-4-4-4-12 with dashes, in byte order 0..15, and parsing that
\* text returns the same 16 bytes.
C10_GuidTextLaw ==
    guidStage = "parsed" =>
        /\ Len(guidText) = 36
        /\ \A i \in {9, 14, 19, 24} : guidText[i] = 45
        /\ \A k \in 1..16 :
               /\ guidText[GuidDigitIndex(k)] = LowerHexDigits[(guid[k] \div 16) + 1]
               /\ guidText[GuidDigitIndex(k) + 1] = LowerHexDigits[(guid[k] % 16) + 1]
        /\ guidRes.ok
        /\ guidRes.val = guid

C10_Witness ==
    /\ guidStage = "parsed"
    /\ guid = TestGuid
    /\ guidText = Lit("01020304-0506-0708-090a-0b0c0d0e0f10")
    /\ guidRes.ok
    /\ guidRes.val = TestGuid

\* C11: parsing a Guid text succeeds exactly when the text without its
\* dashes is 32 hexadecimal digits, byte i then being the value of digits
\* 2i and 2i+1; every other text is an error.
C11_GuidParseStrict ==
    guidStage = "typed" =>
        LET clean == RemoveDashes(guidText) IN
        /\ guidRes.ok <=> (Len(clean) = 32 /\ \A i \in 1..Len(clean) : ToDigit16(clean[i]) >= 0)
        /\ guidRes.ok =>
               \A k \in 1..GuidLen :
                   guidRes.val[k] = 16 * ToDigit16(clean[2 * k - 1]) + ToDigit16(clean[2 * k])

(***************************************************************************)
(* Claims about the save codec (checked under Spec).                       *)
(***************************************************************************)
Parsed == stage \in {"loaded", "saved"}

Suffix(s, n) == SubSeq(s, Len(s) - n + 1, Len(s))

\* The bytes of a byte array's payload: the Data array of body starts at
\* body.at with its u32 count.
PayloadOf(body, src) == SubSeq(src, body.at + 5, body.upto)

\* Every PropertyBody of a tree with the stream it was read from: the file,
\* or for the properties nested in a custom struct the Data payload.
RECURSIVE BodiesInProps(_, _), BodiesInValue(_, _, _)
BodiesInProps(props, src) ==
    UNION {IF props[i].body = <<>> THEN {}
           ELSE {[body |-> props[i].body[1], src |-> src]}
                    \cup BodiesInValue(props[i].body[1].value, src,
                                       PayloadOf(props[i].body[1], src))
           : i \in 1..Len(props)}

BodiesInValue(value, src, payload) ==
    IF value.k = "StructProperty" THEN BodiesInProps(value.props, src)
    ELSE IF value.k = "CustomStructProperty" THEN BodiesInProps(value.props, payload)
    ELSE IF value.k = "ArrayProperty"
    THEN UNION {BodiesInValue(value.values[i], src, <<>>) : i \in 1..Len(value.values)}
    ELSE IF value.k = "MapProperty"
    THEN UNION {BodiesInValue(value.values[i][1], src, <<>>)
                    \cup BodiesInValue(value.values[i][2], src, <<>>)
                : i \in 1..Len(value.values)}
    ELSE {}

Bodies == BodiesInProps(save.val.save_data.properties, file)

RecognizedTypeNames == {TN[f] : f \in DOMAIN TN}

\* C1: for every byte sequence the SaveGame reader parses successfully,
\* writing the parsed tree without modifying it gives exactly those bytes.
C1_RoundTripEquality == stage = "saved" => out = file

\* C2: for every PropertyBody produced by parsing, the data_size read from
\* the stream equals value.size() of the parsed value, which is the
\* data_size written back.
C2_BackPatchAgreement ==
    Parsed => \A e \in Bodies : e.body.read_size = ValueSize(e.body.value)

\* C4: through parse then write of an unmodified tree, a property of an
\* unrecognized type is exactly data_size raw bytes (the next property
\* starts right after them) and they are written back unchanged; the 32
\* bits of TextFlags are written back unchanged; the extra bytes of a
\* custom struct are the last bytes of its payload and are written back
\* unchanged.
C4_UnknownDataPreserved ==
    Parsed => \A e \in Bodies :
        LET body == e.body
            value == e.body.value
            written == WriteValue(e.body.value)
        IN
        /\ body.property_type.name \notin RecognizedTypeNames =>
               /\ value = UnknownProperty(SubSeq(e.src, body.at + 1, body.at + body.read_size))
               /\ body.upto = body.at + body.read_size
               /\ written = SubSeq(e.src, body.at + 1, body.at + body.read_size)
        /\ value.k = "TextProperty" =>
               SubSeq(written, 1, 4) = SubSeq(e.src, body.at + 1, body.at + 4)
        /\ value.k = "CustomStructProperty" =>
               /\ value.extra = Suffix(PayloadOf(body, e.src), Len(value.extra))
               /\ Suffix(written, Len(value.extra)) = value.extra

C4_Witness ==
    /\ stage = "saved"
    /\ out = file
    /\ \E e \in Bodies : e.body.value = UnknownProperty(<<1, 2, 3>>)
    /\ \E e \in Bodies : e.body.value.k = "TextProperty" /\ e.body.value.flags = <<33, 1, 0, 64>>
    /\ \E e \in Bodies :
           e.body.value.k = "CustomStructProperty" /\ e.body.value.extra = FileFooterOf(1)

\* C5: a StructProperty whose parsed children ended on the bodyless "None"
\* property is written with that child last, as it was in the file; one
\* whose read ended at its size bound has no bodyless child and is written
\* without one.
C5_SentinelDiscipline ==
    Parsed => \A e \in Bodies : e.body.value.k = "StructProperty" =>
        LET props == e.body.value.props
            n == Len(e.body.value.props)
            written == WriteValue(e.body.value)
        IN
        IF n > 0 /\ props[n].body = <<>>
        THEN /\ props[n].name \in {NONE_NAME, <<>>}
             /\ \A i \in 1..(n - 1) : props[i].body # <<>>
             /\ written = WriteProps(SubSeq(props, 1, n - 1)) \o WriteFString(props[n].name)
             /\ Suffix(written, FStringByteSize(props[n].name))
                    = SubSeq(e.src, e.body.upto - FStringByteSize(props[n].name) + 1, e.body.upto)
        ELSE /\ e.body.upto >= e.body.at + e.body.read_size
             /\ \A i \in 1..n : props[i].body # <<>>
             /\ written = WriteProps(props)
             /\ LET again == ReadStructProps(written, 0, Len(written), -1, <<>>) IN
                    again.ok => \A i \in 1..Len(again.val) : again.val[i].body # <<>>

C5_Witness ==
    /\ stage = "saved"
    /\ out = file
    /\ \E e \in Bodies :
           /\ e.body.value.k = "StructProperty"
           /\ Len(e.body.value.props) = 3
           /\ e.body.value.props[3] = [name |-> NONE_NAME, body |-> <<>>]

\* C6: in a struct whose Class child names a class of the table (footer
\* size N), a following Data byte array is re-parsed as a CustomStruct with
\* N bytes kept in extra, and writing it gives the original bytes of the
\* Data array (the u32 length and the payload).
C6_CustomStructRoundTrip ==
    Parsed => \A e \in Bodies : e.body.value.k = "StructProperty" =>
        LET props == e.body.value.props IN
        \A i \in 1..Len(props) : \A j \in (i + 1)..Len(props) :
            (/\ custom_struct_footer_size(props[i]) >= 0
             /\ \A h \in 1..(i - 1) : custom_struct_footer_size(props[h]) < 0
             /\ props[j].name = DATA_NAME
             /\ props[j].body # <<>>
             /\ props[j].body[1].property_type.name = TN.Array
             /\ element_type(props[j].body[1].property_type).name = TN.Byte)
            => /\ props[j].body[1].value.k = "CustomStructProperty"
               /\ Len(props[j].body[1].value.extra) = custom_struct_footer_size(props[i])
               /\ WriteValue(props[j].body[1].value)
                      = SubSeq(e.src, props[j].body[1].at + 1, props[j].body[1].upto)

\* C14: a BoolProperty read with data_size 0 is the absent variant: no
\* value byte is consumed, its size is 0, no value byte is written and the
\* flags byte is written as read, so the record is written as the bytes it
\* was read from; with any other data_size one byte is read and the value
\* is true exactly when that byte is not 0.
C14_AbsentBool ==
    Parsed => \A e \in Bodies : e.body.property_type.name = TN.Bool =>
        LET body == e.body
            written == WriteBody(e.body)
            typed == Len(WriteType(e.body.property_type))
        IN
        IF body.read_size = 0
        THEN /\ body.value = [k |-> "BoolProperty", some |-> FALSE, b |-> FALSE]
             /\ body.upto = body.at
             /\ ValueSize(body.value) = 0
             /\ WriteValue(body.value) = <<>>
             /\ body.flags = e.src[body.at]
             /\ written[Len(written)] = e.src[body.at]
             /\ written = SubSeq(e.src, body.at - 5 - typed + 1, body.upto)
        ELSE /\ body.value.k = "BoolProperty"
             /\ body.value.some
             /\ body.upto = body.at + 1
             /\ body.value.b <=> e.src[body.at + 1] # 0

C14_Witness ==
    /\ stage = "saved"
    /\ \E e \in Bodies :
           /\ e.body.property_type.name = TN.Bool
           /\ e.body.read_size = 0
           /\ e.body.flags = 16
           /\ ~e.body.value.some
    /\ \E e \in Bodies :
           /\ e.body.property_type.name = TN.Bool
           /\ e.src[e.body.at + 1] = 2
           /\ e.body.value.some
           /\ e.body.value.b

(***************************************************************************)
(* Claims about the sizes the writer announces (checked under SpecEdit).   *)
(***************************************************************************)
\* Every PropertyValue of a tree: the values of the properties, the
\* elements of arrays, the keys and values of maps.
RECURSIVE ValuesInProps(_), ValuesIn(_)
ValuesInProps(props) ==
    UNION {IF props[i].body = <<>> THEN {} ELSE ValuesIn(props[i].body[1].value)
           : i \in 1..Len(props)}

ValuesIn(value) ==
    {value}
    \cup (IF value.k = "StructProperty" \/ value.k = "CustomStructProperty"
          THEN ValuesInProps(value.props)
          ELSE IF value.k = "ArrayProperty"
          THEN UNION {ValuesIn(value.values[i]) : i \in 1..Len(value.values)}
          ELSE IF value.k = "MapProperty"
          THEN UNION {ValuesIn(value.values[i][1]) \cup ValuesIn(value.values[i][2])
                      : i \in 1..Len(value.values)}
          ELSE {})

\* C3: for every PropertyBody of a parsed or edited tree, the u32 data_size
\* the writer emits is the number of bytes it then emits for the value, and
\* size() of every value of the tree, whatever its variant, is the number
\* of bytes written for it.
C3_SizeIsWrittenLength ==
    Parsed =>
        /\ \A e \in Bodies :
               LET written == WriteBody(e.body)
                   typed == Len(WriteType(e.body.property_type))
               IN /\ ReadU32(written, typed).val = Len(written) - typed - 5
                  /\ SubSeq(written, typed + 6, Len(written)) = WriteValue(e.body.value)
        /\ \A value \in ValuesInProps(save.val.save_data.properties) :
               ValueSize(value) = Len(WriteValue(value))

C3_Witness ==
    /\ stage = "saved"
    /\ edits > 0
    /\ \E e \in Bodies : e.body.value.k = "CustomStructProperty"
    /\ \E e \in Bodies :
           /\ e.body.value = [k |-> "BoolProperty", some |-> FALSE, b |-> FALSE]
           /\ e.body.read_size = 0
           /\ e.body.upto = 0

(***************************************************************************)
(* Claims about type descriptors (checked under SpecEdit).                 *)
(***************************************************************************)
\* A type descriptor and the descriptors nested in it.
RECURSIVE TypesIn(_)
TypesIn(ty) == {ty} \cup UNION {TypesIn(ty.inner_types[i]) : i \in 1..Len(ty.inner_types)}

TagBytes(tag) == WriteU32(tag.kind) \o WriteFString(tag.value)

ReadBodies == {e \in Bodies : e.body.upto > 0}

IsByteArrayType(ty) == ty.name = TN.Array /\ element_type(ty).name = TN.Byte

\* C13: an ArrayProperty of ByteProperty with count N (N = 0 included) is
\* read as an array of exactly one UnknownProperty holding the N payload
\* bytes; its array length is N, its size 4 + N, and it is written as
\* u32(N) and the N bytes.
C13_ByteArraySpecialization ==
    Parsed => \A e \in ReadBodies : IsByteArrayType(e.body.property_type) =>
        LET n == ReadU32(e.src, e.body.at).val
            bytes == SubSeq(e.src, e.body.at + 5, e.body.at + 4 + n)
            read == ReadValue(e.src, e.body.at, e.body.property_type, e.body.flags,
                              e.body.read_size)
        IN /\ read.ok
           /\ read.pos = e.body.at + 4 + n
           /\ read.val.k = "ArrayProperty"
           /\ read.val.values = <<UnknownProperty(bytes)>>
           /\ Len(bytes) = n
           /\ array_len(read.val) = n
           /\ ValueSize(read.val) = 4 + n
           /\ WriteValue(read.val) = WriteU32(n) \o bytes

C13_Witness ==
    /\ stage = "saved"
    /\ \E e \in ReadBodies :
           /\ IsByteArrayType(e.body.property_type)
           /\ e.body.value = [k |-> "ArrayProperty", values |-> <<UnknownProperty(<<>>)>>]
    /\ \E e \in ReadBodies :
           /\ IsByteArrayType(e.body.property_type)
           /\ e.body.value = [k |-> "ArrayProperty", values |-> <<UnknownProperty(<<9, 8, 7>>)>>]

(***************************************************************************)
(* Claims about malformed files (checked under SpecMalformed).             *)
(***************************************************************************)
Loaded == stage \in {"loaded", "failed", "saved"}

\* The result is an Err value handed to the caller.
IsErrorResult(res) == ~res.ok /\ res.err \in {"eof", "bad"}

\* C15: when the value of a property consumes more bytes than its
\* data_size (here: the first property of the file), the reader gives an
\* error result to its caller and no tree.
C15_OverflowingValueIsError ==
    Loaded =>
        LET name == ReadFString(file, Len(FileHeader)) IN
        (name.ok /\ name.val # NONE_NAME /\ name.val # <<>>) =>
            LET ty == ReadType(file, name.pos) IN
            ty.ok =>
                LET size == ReadU32(file, ty.pos) IN
                (size.ok /\ size.pos < Len(file)) =>
                    LET value == ReadVariant(file, size.pos + 1, ty.val, file[size.pos + 1],
                                             size.val)
                    IN (value.ok /\ value.pos > size.pos + 1 + size.val)
                           => IsErrorResult(save)

\* C16: for every input the SaveGame reader gives its caller a tree or an
\* error value; it never unwinds.
C16_ReaderNeverAborts == Loaded => (save.ok \/ IsErrorResult(save))

(***************************************************************************)
(* Claims about the editor's operations (checked under SpecEdit).          *)
(***************************************************************************)
\* The struct was read up to its "None" sentinel.
EndedOnSentinel(e) ==
    /\ e.body.upto - e.body.at >= Len(FileNone)
    /\ SubSeq(e.src, e.body.upto - Len(FileNone) + 1, e.body.upto) = FileNone

\* C17: a property list that ended with the bodyless "None" sentinel when
\* it was read still ends with it after the editor's list operations, and
\* no property follows the sentinel.
C17_SentinelKeptByEdits ==
    Parsed => \A e \in ReadBodies :
        (e.body.value.k = "StructProperty" /\ EndedOnSentinel(e)) =>
            LET props == e.body.value.props IN
            /\ props # <<>>
            /\ props[Len(props)].body = <<>>
            /\ \A i \in 1..(Len(props) - 1) : props[i].body # <<>>

(***************************************************************************)
(* Claims about the default constructors (checked under SpecDefaults).     *)
(***************************************************************************)
IsPlainStructType(ty) ==
    /\ ty.name = TN.Struct
    /\ describe(ty) # GAMEPLAY_TAG_CONTAINER_TYPE
    /\ ~IsPrefix(CORE_UOBJECT_TYPE_PREFIX, describe(ty))

\* C18: the default value of a StructProperty with zero flags is the property
\* stream holding the None sentinel alone, whichever of default_for_type and
\* make_default_value builds it.
C18_DefaultStructIsSentinel ==
    (defStage # "start" /\ IsPlainStructType(defType) /\ defFlags = 0) =>
        defValue = [k |-> "StructProperty", props |-> <<new_none>>]

\* C19: for every type and every flags byte, the value make_default_value
\* builds, written as the value of a body of that type and flags, is read
\* back whole as the same value.
C19_DefaultReadsBack ==
    (defStage = "read" /\ defCall = "make_default_value") =>
        /\ defRes.ok
        /\ defRes.pos = Len(defBytes)
        /\ defRes.val.property_type = defType
        /\ defRes.val.flags = defFlags
        /\ defRes.val.value = defValue

(***************************************************************************)
(* Indexable: looking a child up by name.  A result is absent, or the      *)
(* element found: its place in the list that was searched and its value.   *)
(***************************************************************************)
Absent == [some |-> FALSE, at |-> 0, val |-> <<>>]

Found(i, value) == [some |-> TRUE, at |-> i, val |-> value]

ValueEqStrOnlyStrMutant(value, other) == value.k = "StrProperty" /\ value.s = other

\* impl PartialEq<str> for PropertyValue
ValueEqStr(value, other) == value.k \in StringVariants /\ value.s = other

RECURSIVE FindMapProps(_, _, _), FindMapPairs(_, _, _)
\* iter().find_map(|p| if p.name == key { p.body.as_ref().map(|b| &b.value) } else { None })
FindMapProps(props, key, i) ==
    IF i > Len(props) THEN Absent
    ELSE IF props[i].name = key /\ props[i].body # <<>> THEN Found(i, props[i].body[1].value)
    ELSE FindMapProps(props, key, i + 1)

\* iter().find_map(|(k, v)| (k == key).then_some(v))
FindMapPairs(values, key, i) ==
    IF i > Len(values) THEN Absent
    ELSE IF ValueEqStr(values[i][1], key) THEN Found(i, values[i][2])
    ELSE FindMapPairs(values, key, i + 1)

\* <PropertyValue as Indexable>::get_key
get_key(value, key) ==
    IF value.k = "StructProperty" THEN FindMapProps(value.props, key, 1)
    ELSE IF value.k = "CustomStructProperty" THEN FindMapProps(value.props, key, 1)
    ELSE IF value.k = "MapProperty" THEN FindMapPairs(value.values, key, 1)
    ELSE Absent

\* <PropertyValue as Indexable>::get_key_mut: the same searches over iter_mut().
get_key_mut(value, key) ==
    IF value.k = "StructProperty" THEN FindMapProps(value.props, key, 1)
    ELSE IF value.k = "CustomStructProperty" THEN FindMapProps(value.props, key, 1)
    ELSE IF value.k = "MapProperty" THEN FindMapPairs(value.values, key, 1)
    ELSE Absent

\* <SaveGameData as Indexable>::get_key and get_key_mut
SaveGameData_get_key(data, key) == FindMapProps(data.properties, key, 1)

SaveGameData_get_key_mut(data, key) == FindMapProps(data.properties, key, 1)

ValueEqUsizeSignBlindMutant(value, other) ==
    (value.k = "IntProperty" \/ value.k = "ByteProperty")
        /\ (IF value.n < 0 THEN -value.n ELSE value.n) = other

\* impl PartialEq<usize> for PropertyValue
ValueEqUsize(value, other) ==
    IF value.k = "IntProperty" THEN (IF value.n < 0 THEN FALSE ELSE value.n = other)
    ELSE IF value.k = "ByteProperty" THEN value.n = other
    ELSE FALSE

RECURSIVE FindMapIndex(_, _, _)
\* iter().find_map(|(k, v)| (*k == index).then_some(v))
FindMapIndex(values, index, i) ==
    IF i > Len(values) THEN Absent
    ELSE IF ValueEqUsize(values[i][1], index) THEN Found(i, values[i][2])
    ELSE FindMapIndex(values, index, i + 1)

\* Vec::get / Vec::get_mut
VecGet(values, index) ==
    IF index < Len(values) THEN Found(index + 1, values[index + 1]) ELSE Absent

\* <PropertyValue as Indexable>::get_index
get_index(value, index) ==
    IF value.k = "ArrayProperty" THEN VecGet(value.values, index)
    ELSE IF value.k = "MapProperty" THEN FindMapIndex(value.values, index, 1)
    ELSE Absent

\* <PropertyValue as Indexable>::get_index_mut
get_index_mut(value, index) ==
    IF value.k = "ArrayProperty" THEN VecGet(value.values, index)
    ELSE IF value.k = "MapProperty" THEN FindMapIndex(value.values, index, 1)
    ELSE Absent

\* The files looked into: properties and maps with repeated names; the
\* objects of a loaded file a lookup can be made on; the names asked for.
\* One lookup is made per loaded file: a lookup changes nothing, so a
\* second one would find what a first one finds.
LookupNames == {"Str", "MapOfNames", "MapOfInts", "MapByteBool", "ArrayOfInts"}

LookupTargets ==
    {[on |-> "SaveGameData", it |-> save.val.save_data]}
    \cup {[on |-> "PropertyValue", it |-> value]
          : value \in ValuesInProps(save.val.save_data.properties)}

LookupKeys == {Lit("I"), Lit("S"), Lit("M"), Lit("W"), NONE_NAME, DATA_NAME}

GetKey ==
    /\ stage = "loaded"
    /\ lookCall = "none"
    /\ \E target \in LookupTargets : \E key \in LookupKeys :
          /\ lookTarget' = target
          /\ lookKey' = key
          /\ lookRes' = IF target.on = "SaveGameData"
                        THEN SaveGameData_get_key(target.it, key)
                        ELSE get_key(target.it, key)
    /\ lookCall' = "get_key"
    /\ UNCHANGED <<overflow_checks, defVars, tyVars, fsVars, guidVars, codecVars>>

GetKeyMut ==
    /\ stage = "loaded"
    /\ lookCall = "none"
    /\ \E target \in LookupTargets : \E key \in LookupKeys :
          /\ lookTarget' = target
          /\ lookKey' = key
          /\ lookRes' = IF target.on = "SaveGameData"
                        THEN SaveGameData_get_key_mut(target.it, key)
                        ELSE get_key_mut(target.it, key)
    /\ lookCall' = "get_key_mut"
    /\ UNCHANGED <<overflow_checks, defVars, tyVars, fsVars, guidVars, codecVars>>

\* The indexes asked for: usize values.
LookupIndexes == {0, 1, 2, 5}

GetIndex ==
    /\ stage = "loaded"
    /\ lookCall = "none"
    /\ \E target \in LookupTargets : \E index \in LookupIndexes :
          /\ lookTarget' = target
          /\ lookKey' = index
          /\ lookRes' = IF target.on = "SaveGameData" THEN Absent
                        ELSE get_index(target.it, index)
    /\ lookCall' = "get_index"
    /\ UNCHANGED <<overflow_checks, defVars, tyVars, fsVars, guidVars, codecVars>>

GetIndexMut ==
    /\ stage = "loaded"
    /\ lookCall = "none"
    /\ \E target \in LookupTargets : \E index \in LookupIndexes :
          /\ lookTarget' = target
          /\ lookKey' = index
          /\ lookRes' = IF target.on = "SaveGameData" THEN Absent
                        ELSE get_index_mut(target.it, index)
    /\ lookCall' = "get_index_mut"
    /\ UNCHANGED <<overflow_checks, defVars, tyVars, fsVars, guidVars, codecVars>>

LookupNext ==
    \/ \E f \in LookupNames : AppendProperty(f)
    \/ WrapStruct(TRUE)
    \/ WrapCustomStruct(1, FileFooterOf(1))
    \/ LoadSave
    \/ GetKey
    \/ GetKeyMut
    \/ GetIndex
    \/ GetIndexMut

SpecLookup == CodecInit /\ [][LookupNext]_vars

(***************************************************************************)
(* Claims about lookups (checked under SpecLookup).                        *)
(***************************************************************************)
\* The list a lookup searches, and the places in it that answer the name.
SearchedProps(target) ==
    IF target.on = "SaveGameData" THEN target.it.properties
    ELSE IF target.it.k \in {"StructProperty", "CustomStructProperty"} THEN target.it.props
    ELSE <<>>

SearchedPairs(target) ==
    IF target.on = "PropertyValue" /\ target.it.k = "MapProperty" THEN target.it.values
    ELSE <<>>

NamedChildren(target, s) ==
    {i \in 1..Len(SearchedProps(target)) :
        SearchedProps(target)[i].name = s /\ SearchedProps(target)[i].body # <<>>}

NamedPairs(target, s) ==
    {i \in 1..Len(SearchedPairs(target)) :
        /\ SearchedPairs(target)[i][1].k \in
               {"StrProperty", "EnumProperty", "NameProperty", "ObjectProperty"}
        /\ SearchedPairs(target)[i][1].s = s}

Least(S) == CHOOSE i \in S : \A j \in S : i <= j

\* C20: a lookup by name on a struct, a custom struct or the top-level list
\* gives the value of the first child of that name that has a body; on a map
\* it gives the value of the first pair whose key is a Str, Enum, Name or
\* Object property equal to the name; on every other value, or when nothing
\* matches, it gives nothing.  get_key_mut finds the element get_key finds.
C20_GetByName ==
    lookCall \in {"get_key", "get_key_mut"} =>
        /\ IF NamedChildren(lookTarget, lookKey) # {}
           THEN lookRes = Found(Least(NamedChildren(lookTarget, lookKey)),
                                SearchedProps(lookTarget)[Least(NamedChildren(lookTarget, lookKey))]
                                    .body[1].value)
           ELSE IF NamedPairs(lookTarget, lookKey) # {}
           THEN lookRes = Found(Least(NamedPairs(lookTarget, lookKey)),
                                SearchedPairs(lookTarget)[Least(NamedPairs(lookTarget, lookKey))][2])
           ELSE lookRes = Absent
        /\ lookTarget.on = "SaveGameData" =>
               SaveGameData_get_key_mut(lookTarget.it, lookKey)
                   = SaveGameData_get_key(lookTarget.it, lookKey)
        /\ lookTarget.on = "PropertyValue" =>
               get_key_mut(lookTarget.it, lookKey) = get_key(lookTarget.it, lookKey)

\* A mutable lookup in a map found the first of two pairs whose Name key is
\* the name asked for, after a pair with another key.
C20_Witness ==
    /\ lookCall = "get_key_mut"
    /\ lookTarget.on = "PropertyValue"
    /\ lookTarget.it.k = "MapProperty"
    /\ lookRes.some
    /\ lookRes.at = 2
    /\ Cardinality(NamedPairs(lookTarget, lookKey)) = 2
    /\ lookTarget.it.values[2][1].k = "NameProperty"

IndexedPairs(target, i) ==
    {j \in 1..Len(SearchedPairs(target)) :
        \/ /\ SearchedPairs(target)[j][1].k = "IntProperty"
           /\ SearchedPairs(target)[j][1].n = i
        \/ /\ SearchedPairs(target)[j][1].k = "ByteProperty"
           /\ SearchedPairs(target)[j][1].n = i}

\* C21: a lookup by index on an array gives element i of its element list,
\* nothing when i is out of range; on a map it gives the value of the first
\* pair whose key is an IntProperty or ByteProperty equal to i (a negative
\* key or a string key equals no index); on every other value it gives
\* nothing.
C21_GetByIndex ==
    lookCall \in {"get_index", "get_index_mut"} =>
        IF lookTarget.on = "PropertyValue" /\ lookTarget.it.k = "ArrayProperty"
        THEN IF lookKey < Len(lookTarget.it.values)
             THEN lookRes = Found(lookKey + 1, lookTarget.it.values[lookKey + 1])
             ELSE lookRes = Absent
        ELSE IF IndexedPairs(lookTarget, lookKey) # {}
        THEN lookRes = Found(Least(IndexedPairs(lookTarget, lookKey)),
                             SearchedPairs(lookTarget)[Least(IndexedPairs(lookTarget, lookKey))][2])
        ELSE lookRes = Absent

\* A lookup in a map with a negative key found the first of two pairs
\* whose IntProperty key is the index asked for.
C21_Witness ==
    /\ lookCall = "get_index"
    /\ lookTarget.on = "PropertyValue"
    /\ lookTarget.it.k = "MapProperty"
    /\ lookTarget.it.values[1][1].k = "IntProperty"
    /\ lookTarget.it.values[1][1].n < 0
    /\ lookRes.some
    /\ lookRes.at = 2
    /\ Cardinality(IndexedPairs(lookTarget, lookKey)) = 2

(***************************************************************************)
(* Claims about type descriptors read on their own (checked under          *)
(* SpecType).                                                              *)
(***************************************************************************)
TypeWasRead == tyStage \in {"read", "projected"} /\ tyRes.ok

\* The value of tag i of a descriptor (counted from 0), nothing when the
\* descriptor has no such tag.
TagValueAt(ty, i) == IF Len(ty.tags) > i THEN ty.tags[i + 1].value ELSE <<>>

InnerArity(ty) ==
    IF ty.name = Lit("EnumProperty") THEN 1
    ELSE IF ty.name = Lit("MapProperty")
    THEN (IF TagValueAt(ty, 0) = Lit("EnumProperty") THEN 2 ELSE 1)
    ELSE IF ty.name = Lit("ArrayProperty")
    THEN (IF TagValueAt(ty, 0) = Lit("EnumProperty") THEN 1
          ELSE IF TagValueAt(ty, 0) = Lit("MapProperty")
          THEN (IF TagValueAt(ty, 1) = Lit("EnumProperty") THEN 2 ELSE 1)
          ELSE 0)
    ELSE 0

\* C22: a descriptor that was read holds exactly k inner descriptors, k
\* being 1 for EnumProperty, for MapProperty 2 when the first tag is
\* EnumProperty and 1 otherwise, for ArrayProperty 1 when the first tag is
\* EnumProperty, 2 or 1 when it is MapProperty (2 when the second tag is
\* EnumProperty), 0 otherwise, and 0 for every other name; the read stops
\* right after the last of them.
C22_InnerArity ==
    TypeWasRead =>
        /\ \A ty \in TypesIn(tyRes.val) : Len(ty.inner_types) = InnerArity(ty)
        /\ tyRes.pos = Len(WriteType(tyRes.val))
        /\ SubSeq(tyBytes, 1, tyRes.pos) = WriteType(tyRes.val)

\* An ArrayProperty descriptor with the tags MapProperty, EnumProperty was
\* read with its two inner descriptors.
C22_Witness ==
    /\ TypeWasRead
    /\ tyRes.val.name = TN.Array
    /\ TagValueAt(tyRes.val, 0) = TN.Map
    /\ TagValueAt(tyRes.val, 1) = TN.Enum
    /\ Len(tyRes.val.inner_types) = 2

\* C23: the element type is a function of the descriptor alone: for an
\* ArrayProperty or MapProperty with a tag it is named by the first tag,
\* keeps the other tags, and keeps the first inner descriptor only when
\* that name is EnumProperty; the GameplayTag container struct gives a bare
\* NameProperty; every other descriptor gives itself.
C23_ElementTypeProjection ==
    tyStage = "projected" =>
        IF tyRes.val.name \in {Lit("ArrayProperty"), Lit("MapProperty")} /\ Len(tyRes.val.tags) >= 1
        THEN /\ tyElem.name = tyRes.val.tags[1].value
             /\ tyElem.tags = SubSeq(tyRes.val.tags, 2, Len(tyRes.val.tags))
             /\ tyElem.inner_types = IF tyElem.name = Lit("EnumProperty")
                                     THEN SubSeq(tyRes.val.inner_types, 1, 1)
                                     ELSE <<>>
        ELSE IF tyRes.val.name = Lit("StructProperty")
                /\ describe(tyRes.val)
                       = Lit("StructProperty</Script/GameplayTags.GameplayTagContainer>")
        THEN tyElem = [name |-> Lit("NameProperty"), tags |-> <<>>, inner_types |-> <<>>]
        ELSE tyElem = tyRes.val

\* The key type of a map of enums was taken: it is an EnumProperty with the
\* rest of the tags and the first of the two inner descriptors.
C23_Witness ==
    /\ tyStage = "projected"
    /\ tyRes.val.name = TN.Map
    /\ Len(tyRes.val.tags) = 2
    /\ Len(tyRes.val.inner_types) = 2
    /\ tyElem.name = TN.Enum
    /\ Len(tyElem.tags) = 1
    /\ Len(tyElem.inner_types) = 1

(***************************************************************************)
(* Reading whole files: a file of the property streams below is opened,    *)
(* read (SaveGame's BinRead) and written back.                             *)
(***************************************************************************)
ByteStreams ==
    {Fragments[f] \o rest : f \in {"Byte", "ByteEnum", "ByteTagBad", "ByteTagZero", "ByteNoTag"},
                            rest \in {<<>>, Fragments.Str}}

\* A struct property V of the type the two tags describe, and the struct
\* properties read: every CoreUObject layout, a CoreUObject name without a
\* layout, the GameplayTag container and a game struct, with flags 8 or 1
\* over raw contents and with flags 0 over a property stream.
FileStructOf(name, package, flags, value) ==
    FileProperty(Lit("V"), FileType(TN.Struct, <<FileTag(name), FileTag(package)>>),
                 Len(value), flags, value)

StructStreams ==
    {FileStructOf(CORE_UOBJECTS[i].name, Lit("/Script/CoreUObject"), flags,
                  [j \in 1..CORE_UOBJECTS[i].size |-> 10 * i + j]) \o Fragments.Str
        : i \in 1..Len(CORE_UOBJECTS), flags \in {1, 8}}
    \cup {FileStructOf(name, Lit("/Script/CoreUObject"), 0, inner \o FileNone)
             : name \in {Lit("Vector"), Lit("Box")}, inner \in {<<>>, Fragments.Str}}
    \cup {FileStructOf(Lit("Box"), Lit("/Script/CoreUObject"), 8, <<1, 2, 3>>),
          FileStructOf(Lit("Inner"), Lit("/Script/GameNoce"), 8, <<1, 2, 3>>) \o Fragments.Str,
          FileStructOf(Lit("Inner"), Lit("/Script/GameNoce"), 1, <<>>),
          FileStructOf(Lit("Inner"), Lit("/Script/GameNoce"), 0, Fragments.Str \o FileNone),
          FileStructOf(Lit("GameplayTagContainer"), Lit("/Script/GameplayTags"), 8,
                       FileU32(2) \o FileString(Lit("t")) \o FileString(Lit("uv"))),
          FileStructOf(Lit("GameplayTagContainer"), Lit("/Script/GameplayTags"), 1, FileU32(0)),
          FileStructOf(Lit("GameplayTagContainer"), Lit("/Script/GameplayTags"), 0,
                       Fragments.Str \o FileNone)}

\* A Class property, a Data property holding a byte array (a flags byte, a
\* property stream and a footer), and a Data property whose array has one
\* element of a type the codec does not know.
FileClass(type, class) ==
    FileProperty(CLASS_NAME, FileType(type, <<>>), Len(class) + 5, 0, FileString(class))

FileData(inner, footer) ==
    FileProperty(DATA_NAME, FileType(TN.Array, <<FileTag(TN.Byte)>>),
                 Len(inner) + Len(footer) + 5, 0,
                 FileU32(Len(inner) + Len(footer) + 1) \o <<0>> \o inner \o footer)

FileDataOfOne(inner, footer) ==
    FileProperty(DATA_NAME, FileType(TN.Array, <<FileTag(Lit("FooProperty"))>>),
                 Len(inner) + Len(footer) + 5, 0,
                 FileU32(1) \o <<0>> \o inner \o footer)

\* A struct property W over the children given.
FileStructOver(children) == FileProperty(Lit("W"), StructType, Len(children), 0, children)

\* Streams of Class and Data properties: a class with an 8-byte footer, one
\* with a 4-byte footer, one that is not in the table, and a Class that is
\* not an ObjectProperty, before and after Data properties.
ClassDataStreams ==
    LET A == FileClass(TN.Object, CUSTOM_STRUCT_CLASSES[1].class)
        B == FileClass(TN.Object, CUSTOM_STRUCT_CLASSES[9].class)
        X == FileClass(TN.Object, Lit("/Script/GameNoce.Other"))
        S == FileClass(TN.Str, CUSTOM_STRUCT_CLASSES[1].class)
        D8 == FileData(Fragments.Str, FileFooterOf(1))
        D4 == FileData(Fragments.Byte, FileFooterOf(9))
        E8 == FileData(<<>>, FileFooterOf(1))
        F8 == FileDataOfOne(Fragments.Str, FileFooterOf(1))
    IN {A \o D8, D8 \o A \o D8, A \o B \o D8, B \o A \o D4, X \o D8, X \o B \o D4,
        S \o D8, A \o Fragments.Str \o D8 \o E8, A \o F8, A \o A, D8,
        A \o FileProperty(DATA_NAME, FileType(TN.Str, <<>>), 7, 0, FileString(Lit("hi")))}

\* A Class and a Data property with nothing around them, for the top-level
\* list and for the inner stream of a custom struct.
ClassThenData ==
    FileClass(TN.Object, CUSTOM_STRUCT_CLASSES[1].class)
        \o FileData(Fragments.Str, FileFooterOf(1))

\* Struct streams with the sentinel, or a property with an empty name,
\* before their last child, at their end, or nowhere.
SentinelStreams ==
    {FileStructOver(Fragments.Str \o FileNone \o Fragments.Byte),
     FileStructOver(Fragments.Str \o FileString(<<>>) \o Fragments.Byte),
     FileStructOver(Fragments.Str \o FileString(<<>>)),
     FileStructOver(Fragments.Str \o Fragments.Byte),
     FileStructOver(FileNone \o FileNone),
     FileStructOver(<<>>),
     FileStructOver(FileStructOver(Fragments.Byte \o FileNone \o Fragments.Str) \o FileNone)}

\* An array property A of the element type the tags describe, and the arrays
\* read: of an unrecognized element type with one and with two elements, of
\* opaque struct elements under flags 8, of ints, of bytes and of maps.
FileArrayOf(tags, flags, count, contents) ==
    FileProperty(Lit("A"), FileType(TN.Array, tags), 4 + Len(contents), flags,
                 FileU32(count) \o contents)

ArrayStreams ==
    {FileArrayOf(<<FileTag(Lit("FooProperty"))>>, 0, count, contents) \o rest
        : count \in {1, 2}, contents \in {<<>>, <<9>>, <<9, 8, 7>>}, rest \in {<<>>, Fragments.Str}}
    \cup {FileArrayOf(<<FileTag(TN.Struct), FileTag(Lit("Inner")),
                        FileTag(Lit("/Script/GameNoce"))>>, 8, count, <<1, 2, 3>>)
             : count \in {1, 2}}
    \cup {FileArrayOf(<<FileTag(TN.Int)>>, 0, 1, <<5, 0, 0, 0>>),
          FileArrayOf(<<FileTag(TN.Int)>>, 0, 2, <<5, 0, 0, 0, 6, 0, 0, 0>>),
          FileArrayOf(<<FileTag(TN.Byte)>>, 0, 3, <<9, 8, 7>>),
          Fragments.ArrayOfMaps, Fragments.ArrayOfMaps \o Fragments.Str,
          FileProperty(Lit("Q"),
                       FileType(TN.Array, <<FileTag(TN.Map), FileTag(TN.Int)>>)
                           \o FileType(TN.Str, <<>>),
                       4, 0, FileU32(0))}

ReadStreams ==
    ByteStreams \cup StructStreams \cup SentinelStreams \cup ArrayStreams
        \cup {FileStructOver(children \o FileNone) : children \in ClassDataStreams}
        \cup {ClassThenData, ClassThenData \o Fragments.Str,
              FileStructOver(FileClass(TN.Object, CUSTOM_STRUCT_CLASSES[1].class)
                                 \o FileData(ClassThenData, FileFooterOf(1)) \o FileNone)}

OpenFile ==
    /\ stage = "build"
    /\ stream = <<>>
    /\ \E properties \in ReadStreams : stream' = properties
    /\ nprops' = 1
    /\ UNCHANGED <<overflow_checks, defVars, lookVars, tyVars, fsVars, guidVars,
                   stage, wrapped, file, save, out, edits>>

ReadFile ==
    /\ stage = "build"
    /\ stream # <<>>
    /\ file' = FileOf(stream)
    /\ save' = ReadSaveGame(FileOf(stream))
    /\ stage' = IF save'.ok THEN "loaded" ELSE "failed"
    /\ UNCHANGED <<overflow_checks, defVars, lookVars, tyVars, fsVars, guidVars,
                   stream, nprops, wrapped, out, edits>>

WriteFile ==
    /\ stage = "loaded"
    /\ out' = WriteSaveGame(save.val)
    /\ stage' = "saved"
    /\ UNCHANGED <<overflow_checks, defVars, lookVars, tyVars, fsVars, guidVars,
                   stream, nprops, wrapped, file, save, edits>>

ReadNext ==
    \/ OpenFile
    \/ ReadFile
    \/ WriteFile

SpecRead == CodecInit /\ [][ReadNext]_vars

(***************************************************************************)
(* Claims about reading values (checked under SpecRead).                   *)
(***************************************************************************)
\* The first property of the file: its name, type, data_size and flags as
\* the file gives them, and the position its value starts at.
FirstName == ReadFString(file, Len(FileHeader))

FirstType == ReadType(file, FirstName.pos)

FirstDataSize == ReadU32(file, FirstType.pos).val

FirstStart == ReadU32(file, FirstType.pos).pos + 1

FirstIs(name) == Loaded /\ FirstType.ok /\ FirstType.val.name = name

\* The value the reader gave the first property.
FirstBody == save.val.save_data.properties[1].body[1]

\* C24: a ByteProperty with data_size 1 is one byte; otherwise, with tags, a
\* string that parses makes it an EnumProperty; when the string does not
\* parse, or there are no tags, the reader goes back to the start of the
\* value and takes data_size raw bytes as an UnknownProperty, ending at
\* start + data_size.
C24_ByteFallback ==
    FirstIs(Lit("ByteProperty")) =>
        IF FirstDataSize = 1
        THEN /\ save.ok
             /\ FirstBody.value = [k |-> "ByteProperty", n |-> file[FirstStart + 1]]
             /\ FirstBody.upto = FirstStart + 1
        ELSE IF FirstType.val.tags # <<>> /\ ReadFString(file, FirstStart).ok
        THEN /\ save.ok
             /\ FirstBody.value = [k |-> "EnumProperty", s |-> ReadFString(file, FirstStart).val]
        ELSE /\ save.ok
             /\ FirstBody.value
                    = UnknownProperty(SubSeq(file, FirstStart + 1, FirstStart + FirstDataSize))
             /\ FirstBody.upto = FirstStart + FirstDataSize

FirstFlags == file[FirstStart]

\* The bytes of the first property's value, from its start to where the
\* reader stopped.
FirstValueBytes == SubSeq(file, FirstStart + 1, FirstBody.upto)

\* The size of the fixed layout a CoreUObject name stands for; 0 for a name
\* without one.
LayoutSize(name) ==
    IF name = Lit("DateTime") \/ name = Lit("Timespan") THEN 8
    ELSE IF name = Lit("Vector") THEN 24
    ELSE IF name = Lit("Quat") THEN 32
    ELSE IF name = Lit("LinearColor") THEN 16
    ELSE 0

\* C25: a StructProperty is read as a property stream exactly when the body
\* flags are 0; with other flags it is the GameplayTag container (a count
\* and that many strings, shown as an ArrayProperty of NameProperty), the
\* fixed layout the first tag names under the CoreUObject prefix, or
\* data_size raw bytes as an UnknownProperty.
C25_StructDispatch ==
    FirstIs(Lit("StructProperty")) =>
        /\ save.ok
        /\ (FirstBody.value.k = "StructProperty") <=> (FirstFlags = 0)
        /\ FirstFlags # 0 =>
              IF describe(FirstType.val)
                     = Lit("StructProperty</Script/GameplayTags.GameplayTagContainer>")
              THEN /\ FirstBody.value.k = "ArrayProperty"
                   /\ \A i \in 1..Len(FirstBody.value.values) :
                          FirstBody.value.values[i].k = "NameProperty"
                   /\ FirstValueBytes
                          = FileU32(Len(FirstBody.value.values))
                                \o Concat([i \in 1..Len(FirstBody.value.values) |->
                                              FileString(FirstBody.value.values[i].s)])
              ELSE IF IsPrefix(Lit("StructProperty</Script/CoreUObject."), describe(FirstType.val))
                      /\ LayoutSize(FirstType.val.tags[1].value) > 0
              THEN /\ FirstBody.value.k = "CoreUObjectStructProperty"
                   /\ FirstBody.value.name = FirstType.val.tags[1].value
                   /\ Concat(FirstBody.value.fields) = FirstValueBytes
                   /\ Len(FirstValueBytes) = LayoutSize(FirstType.val.tags[1].value)
              ELSE /\ FirstBody.value.k = "UnknownProperty"
                   /\ FirstBody.value.bytes = FirstValueBytes
                   /\ Len(FirstValueBytes) = FirstDataSize

\* A Quat was read under flags 8 as its fixed layout.
C25_Witness ==
    /\ FirstIs(Lit("StructProperty"))
    /\ save.ok
    /\ FirstFlags = 8
    /\ FirstBody.value.k = "CoreUObjectStructProperty"
    /\ FirstBody.value.name = Lit("Quat")
    /\ Len(FirstValueBytes) = 32

\* The children of a struct stream read one after the other with nothing
\* done to them, up to the sentinel or the end of the stream.
RECURSIVE PlainChildren(_, _, _, _)
PlainChildren(b, p, end, props) ==
    IF ~(p < end) THEN Ok(p, props)
    ELSE LET read == ReadProperty(b, p) IN
         IF ~read.ok THEN read
         ELSE IF read.val.body = <<>> THEN Ok(read.pos, Append(props, read.val))
         ELSE PlainChildren(b, read.pos, end, Append(props, read.val))

\* The places of the Class records of a stream that name a class of the
\* table, and the footer size of a class.
ClassRecords(props) ==
    {i \in 1..Len(props) :
        /\ props[i].name = Lit("Class")
        /\ props[i].body # <<>>
        /\ props[i].body[1].value.k = "ObjectProperty"
        /\ \E c \in 1..Len(CUSTOM_STRUCT_CLASSES) :
               CUSTOM_STRUCT_CLASSES[c].class = props[i].body[1].value.s}

FooterOfClass(class) ==
    CUSTOM_STRUCT_CLASSES[CHOOSE c \in 1..Len(CUSTOM_STRUCT_CLASSES) :
                              CUSTOM_STRUCT_CLASSES[c].class = class].footer_size

IsDataRecord(prop) ==
    /\ prop.name = Lit("Data")
    /\ prop.body # <<>>
    /\ prop.body[1].value.k = "ArrayProperty"
    /\ Len(prop.body[1].value.values) = 1
    /\ prop.body[1].value.values[1].k = "UnknownProperty"

\* What recognition makes of a stream read plainly: every Data record after
\* the first Class record becomes the custom struct its bytes hold under
\* that class's footer size.
Recognized(props) ==
    IF ClassRecords(props) = {} THEN props
    ELSE [i \in 1..Len(props) |->
             IF i > Least(ClassRecords(props)) /\ IsDataRecord(props[i])
             THEN [props[i] EXCEPT !.body[1].value =
                      ReadCustomStruct(
                          props[i].body[1].value.values[1].bytes,
                          FooterOfClass(props[Least(ClassRecords(props))].body[1].value.s)).val]
             ELSE props[i]]

RecognizedOk(props) ==
    ClassRecords(props) # {} =>
        \A i \in 1..Len(props) :
            (i > Least(ClassRecords(props)) /\ IsDataRecord(props[i])) =>
                ReadCustomStruct(
                    props[i].body[1].value.values[1].bytes,
                    FooterOfClass(props[Least(ClassRecords(props))].body[1].value.s)).ok

FirstChildren == PlainChildren(file, FirstStart, FirstStart + FirstDataSize, <<>>)

\* C26: in a struct stream the footer size is that of the first Class child
\* whose ObjectProperty value is in the class table, whatever Class
\* children follow; every Data child after it that is a one-element array
\* of an UnknownProperty becomes the custom struct read with that footer
\* size; the Data children before it, and every other child, stay as read.
C26_CustomStructRecognition ==
    (FirstIs(Lit("StructProperty")) /\ FirstFlags = 0
        /\ FirstChildren.ok /\ RecognizedOk(FirstChildren.val)) =>
            /\ save.ok
            /\ FirstBody.value.k = "StructProperty"
            /\ FirstBody.value.props = Recognized(FirstChildren.val)

\* A struct with two Class children of different footer sizes was read and
\* its Data child is the custom struct of the first one.
C26_Witness ==
    /\ FirstIs(Lit("StructProperty"))
    /\ save.ok
    /\ FirstBody.value.k = "StructProperty"
    /\ ClassRecords(FirstBody.value.props) = {1, 2}
    /\ FirstBody.value.props[2].body[1].value.s = CUSTOM_STRUCT_CLASSES[9].class
    /\ Len(FirstBody.value.props) = 4
    /\ FirstBody.value.props[3].body # <<>>
    /\ FirstBody.value.props[3].body[1].value.k = "CustomStructProperty"
    /\ FirstBody.value.props[3].body[1].value.extra = FileFooterOf(1)

\* The property streams of a parsed tree that are not the stream of a
\* StructProperty: the inner streams of the custom structs below a value.
RECURSIVE InnerStreamsOfProps(_), InnerStreamsOf(_)
InnerStreamsOfProps(props) ==
    UNION {IF props[i].body = <<>> THEN {} ELSE InnerStreamsOf(props[i].body[1].value)
           : i \in 1..Len(props)}

InnerStreamsOf(value) ==
    IF value.k = "CustomStructProperty"
    THEN {value.props} \cup InnerStreamsOfProps(value.props)
    ELSE IF value.k = "StructProperty" THEN InnerStreamsOfProps(value.props)
    ELSE IF value.k = "ArrayProperty"
    THEN UNION {InnerStreamsOf(value.values[i]) : i \in 1..Len(value.values)}
    ELSE {}

\* No Data record is left as a byte array after a Class record of the table.
NoDataLeftAfterClass(props) ==
    ClassRecords(props) # {} =>
        \A i \in 1..Len(props) : i > Least(ClassRecords(props)) => ~IsDataRecord(props[i])

\* C27: recognition runs in every property stream: in the top-level list
\* and in the inner stream of a custom struct too, a Data child (one-element
\* byte array) after a Class record of the table has been read as a custom
\* struct.
C27_RecognitionEverywhere ==
    (Loaded /\ save.ok) =>
        /\ NoDataLeftAfterClass(save.val.save_data.properties)
        /\ \A props \in InnerStreamsOfProps(save.val.save_data.properties) :
               NoDataLeftAfterClass(props)

ParsedStructs == {e \in ReadBodies : e.body.value.k = "StructProperty"}

\* C28: in a struct stream the child named None, or with an empty name, is
\* stored without a body and ends the read, whatever bytes are left before
\* start + data_size; without it the read ends where the position reaches
\* start + data_size.  So a parsed struct has a bodyless child only as its
\* last one, and a child is bodyless exactly when its name is None or empty.
C28_SentinelEndsStream ==
    (Loaded /\ save.ok) =>
        \A e \in ParsedStructs :
            LET props == e.body.value.props IN
            /\ \A i \in 1..Len(props) :
                   /\ (props[i].body = <<>>) <=> (props[i].name \in {Lit("None"), <<>>})
                   /\ props[i].body = <<>> => i = Len(props)
            /\ (props = <<>> \/ props[Len(props)].body # <<>>) =>
                   e.body.upto = e.body.at + e.body.read_size
            /\ e.body.upto <= e.body.at + e.body.read_size

\* A struct was read whose sentinel has an empty name and is followed by
\* bytes of the stream that were not read.
C28_Witness ==
    /\ Loaded
    /\ save.ok
    /\ \E e \in ParsedStructs :
           /\ Len(e.body.value.props) = 2
           /\ e.body.value.props[2].name = <<>>
           /\ e.body.value.props[2].body = <<>>
           /\ e.body.upto < e.body.at + e.body.read_size

\* The first property was read as an array and the save was written back.
FirstArrayWritten ==
    /\ stage = "saved"
    /\ save.val.save_data.properties # <<>>
    /\ save.val.save_data.properties[1].body # <<>>
    /\ FirstBody.value.k = "ArrayProperty"

\* C29: an array whose element type is not ByteProperty is written with a
\* count equal to the number of elements in its list, which is the count
\* that was read, also when the list is a single UnknownProperty.
C29_ArrayCountWritten ==
    (FirstArrayWritten /\ element_type(FirstBody.property_type).name # TN.Byte) =>
        /\ ReadU32(out, FirstStart).val = Len(FirstBody.value.values)
        /\ ReadU32(out, FirstStart).val = ReadU32(file, FirstStart).val

\* The first property of the file is an array of maps whose descriptor has
\* the inner types its tags call for.
FirstIsArrayOfMaps ==
    /\ FirstIs(TN.Array)
    /\ TagValueAt(FirstType.val, 0) = TN.Map
    /\ Len(FirstType.val.inner_types) = InnerArity(FirstType.val)

\* C30: an array whose first tag is MapProperty, with the inner types the
\* inner-arity rule asks for, is read to a value or an error result, and
\* each element read is a MapProperty.
C30_ArrayOfMapsReadable ==
    FirstIsArrayOfMaps =>
        /\ save.ok \/ IsErrorResult(save)
        /\ (save.ok /\ save.val.save_data.properties # <<>>
                /\ save.val.save_data.properties[1].body # <<>>) =>
               \A i \in 1..Len(FirstBody.value.values) :
                   FirstBody.value.values[i].k = "MapProperty"

====
